---- MODULE Spec2Model ----
(***************************************************************************)
(* Turbulence solver of SU2 (SU2_CFD/src/solution_direct_turbulent.cpp):   *)
(* per-edge residual / Jacobian assembly, boundary conditions, the         *)
(* implicit Euler update, and the halo exchange between two domains.       *)
(*                                                                         *)
(* Real numbers are modelled by integers.  The numerics kernel             *)
(* (CNumerics::SetResidual), the node class (CVariable), the sparse        *)
(* matrix (CSparseMatrix) and MPI are not part of the two source files;    *)
(* they are modelled from their call sites and the specification.          *)
(*                                                                         *)
(* Spec      one domain: assembly operations and the implicit update.      *)
(* SpecHalo  two domains running BC_Send_Receive over their markers.       *)
(* SpecGeom  construction of the dual geometry and of its coarse levels.   *)
(* SpecAsm   one domain under every configuration, all boundary routines.  *)
(* SpecCtor  the constructors reading the restart file.                    *)
(* SpecPair  two domains joined by two pairs of send and receive markers.  *)
(***************************************************************************)
EXTENDS Integers, Sequences, FiniteSets, TLC

VARIABLES
    model,          \* "SA" (CTurbSASolution) or "SST" (CTurbSSTSolution)
    kernel,         \* which numerics kernel the driver passes as `solver`
    node,           \* node[iPoint]: Solution, Solution_Old, Residual
    Jacobian,       \* block-sparse matrix: <<row point, column point>> -> block
    rhs, xsol,      \* right-hand side and increment, index iPoint*nVar+iVar
    Residual_Max,   \* convergence monitor (SetRes_Max / AddRes_Max / GetRes_Max)
    Residual,       \* scratch: kernel residual
    Jacobian_i,     \* scratch: kernel block d(residual)/d(state i)
    Jacobian_j,     \* scratch: kernel block d(residual)/d(state j)
    Solution,       \* scratch: state vector (BC_NS_Wall, constructor)
    pc,             \* position of the domain inside a handler's loop
    step,           \* the step executed last: handler name, its indices, and what
                    \* the run so far has done to the wall points and the diagonal
    nOps,           \* handlers called so far
    since,          \* handlers called since the residuals were last zeroed
    nDim,           \* space dimension of the mesh (2 or 3)
    dom,            \* halo exchange: per rank, nodes, position, buffers
    net,            \* halo exchange: messages posted and not yet received
    mpilog,         \* halo exchange: MPI calls completed, per rank and marker
    grid,           \* geometry: the levels built so far, fine level first
    gpc,            \* geometry: position and partial results of the construction
    config,         \* options of the configuration file the handlers read
    Solution_i,     \* scratch: turbulent state of side i
    Solution_j,     \* scratch: turbulent state of side j
    Solution_j_end, \* the double that lies behind the last entry of Solution_j
    Gradient,       \* node[iPoint]->GetGradient(), per state component
    Limiter,        \* node[iPoint]->GetLimiter(), per state component
    flow,           \* solution_container[FLOW_SOL]: Solution and Gradient per point
    TurbVar,        \* the states (SetTurbVar) and, in the boundary routines, the
                    \* normal (SetNormal) given to the kernel in the last step,
                    \* with the component indices used to set the states
    access,         \* the Jacobian blocks addressed in the last step
    rfile,          \* constructor: the restart file on disk
    proc            \* constructor: position, console, standard input, exit status

solverVars == <<model, kernel, node, Jacobian, rhs, xsol, Residual_Max,
                Residual, Jacobian_i, Jacobian_j, Solution, pc, step, nOps, since>>
haloVars   == <<dom, net, mpilog>>
geomVars   == <<grid, gpc>>
asmVars    == <<config, Solution_i, Solution_j, Solution_j_end, Gradient, Limiter,
                flow, TurbVar, access>>
ctorVars   == <<rfile, proc>>
vars       == <<solverVars, nDim, haloVars, geomVars, asmVars, ctorVars>>

(***************************************************************************)
(* Bounds of the model.                                                    *)
(***************************************************************************)
nPoint    == 3     \* points of the mesh; the last one is a ghost point
MaxOps    == 3     \* handlers called in one run
MaxKernel == 2     \* numerics kernels the driver may plug in

(***************************************************************************)
(* Mesh and configuration (geometry, config: inputs of every handler).     *)
(***************************************************************************)
Points       == 0 .. (nPoint - 1)
nPointDomain == nPoint - 1
DomainPoints == 0 .. (nPointDomain - 1)
nEdge        == nPoint - 1
\* geometry->edge[iEdge]->GetNode(0), GetNode(1): a chain 0 - 1 - ... - nPoint-1
edge         == [iEdge \in 0 .. (nEdge - 1) |-> <<iEdge, iEdge + 1>>]
Volume(iPoint)     == 2 * (iPoint + 1)      \* geometry->node[iPoint]->GetVolume()
Delta_Time(iPoint) == iPoint + 1            \* flow node's GetDelta_Time()

\* Boundary markers: vertex[val_marker][iVertex]->GetNode(), the send/receive
\* tag config->GetMarker_All_SendRecv(val_marker) and the boundary kind by which
\* the driver picks the boundary routine.
nMarker  == 3
Markers  == 0 .. (nMarker - 1)
vertex   == [m \in Markers |->
               CASE m = 0 -> <<0, 1>>
                 [] m = 1 -> <<nPoint - 2>>
                 [] OTHER -> <<nPoint - 1>>]
Marker_All_SendRecv == [m \in Markers |->
               CASE m = 0 -> 0
                 [] m = 1 -> 2
                 [] OTHER -> -2]
Marker_All_Boundary == [m \in Markers |->
               IF m = 0 THEN config.Marker_Boundary ELSE "SEND_RECEIVE"]
nVertex(m)     == Len(vertex[m])
VertexPoints(m) == {vertex[m][v] : v \in 1 .. nVertex(m)}

\* The options the handlers read from the configuration file.  Kind_Turb_Model
\* is SA or SA_COMP for CTurbSASolution and SST for CTurbSSTSolution.
DefaultConfig(mdl) ==
    [Kind_Upwind_Turb     |-> "SCALAR_UPWIND_1ST",
     Kind_SlopeLimit_Turb |-> "NONE",
     Kind_Gradient_Method |-> "GREEN_GAUSS",
     Kind_Turb_Model      |-> mdl,
     Marker_Boundary      |-> "NS_WALL"]
Configs(mdl) ==
    {[Kind_Upwind_Turb     |-> u[1],
      Kind_SlopeLimit_Turb |-> u[2],
      Kind_Gradient_Method |-> u[3],
      Kind_Turb_Model      |-> u[4],
      Marker_Boundary      |-> b] :
        u \in {c \in {<<"SCALAR_UPWIND_1ST", "NONE", "GREEN_GAUSS", "SA">>,
                      <<"SCALAR_UPWIND_1ST", "NONE", "LEAST_SQUARES", "SA_COMP">>,
                      <<"SCALAR_UPWIND_2ND", "NONE", "LEAST_SQUARES", "SA">>,
                      <<"SCALAR_UPWIND_2ND", "VENKATAKRISHNAN", "GREEN_GAUSS", "SA">>,
                      <<"SCALAR_UPWIND_1ST", "NONE", "GREEN_GAUSS", "SST">>,
                      <<"SCALAR_UPWIND_2ND", "NONE", "LEAST_SQUARES", "SST">>,
                      <<"SCALAR_UPWIND_2ND", "VENKATAKRISHNAN", "GREEN_GAUSS", "SST">>} :
                  (c[4] = "SST") <=> (mdl = "SST")},
        b \in {"NS_WALL", "FAR_FIELD", "INLET", "OUTLET"}}

\* geometry->vertex[val_marker][iVertex]->GetNormal(): the outward normal of a
\* boundary vertex (one number stands for the vector)
VertexNormal(val_marker, iVertex) == nEdge + vertex[val_marker][iVertex] + 1

\* Ordered (row, column) pairs that own a block: the diagonal and both
\* directions of every edge (InitializeJacobianStructure).
Pattern == {<<p, p>> : p \in Points}
             \cup {edge[e] : e \in DOMAIN edge}
             \cup {<<edge[e][2], edge[e][1]>> : e \in DOMAIN edge}

(***************************************************************************)
(* State width and small linear algebra.                                   *)
(***************************************************************************)
nVarOf(mdl) == IF mdl = "SA" THEN 1 ELSE 2
nVar        == nVarOf(model)
Vars        == 0 .. (nVar - 1)
VarPairs    == Vars \X Vars

ZeroVec  == [v \in Vars |-> 0]
ZeroBlk  == [vw \in VarPairs |-> 0]
Identity == [vw \in VarPairs |-> IF vw[1] = vw[2] THEN 1 ELSE 0]
VecAdd(a, b) == [v \in DOMAIN a |-> a[v] + b[v]]
VecSub(a, b) == [v \in DOMAIN a |-> a[v] - b[v]]
VecNeg(a)    == [v \in DOMAIN a |-> 0 - a[v]]
BlkAdd(A, B) == [vw \in DOMAIN A |-> A[vw] + B[vw]]
BlkSub(A, B) == [vw \in DOMAIN A |-> A[vw] - B[vw]]

RECURSIVE SumOver(_, _)
SumOver(S, f) == IF S = {} THEN 0
                 ELSE LET x == CHOOSE y \in S : TRUE
                      IN  f[x] + SumOver(S \ {x}, f)

\* block times vector
BlkVec(A, u) == [v \in Vars |-> SumOver(Vars, [w \in Vars |-> A[<<v, w>>] * u[w]])]

(***************************************************************************)
(* Numerics kernel, CNumerics::SetResidual(Residual, Jacobian_i,           *)
(* Jacobian_j, config): a pure function of the inputs the handler has set  *)
(* (turbulent states of both sides, the edge or the volume).  The driver   *)
(* passes one kernel per kind of term; `kernel` picks the family member.   *)
(* Member 1 is linear in the states, the others add a constant.            *)
(***************************************************************************)
KernelBlock(d, o) == [vw \in VarPairs |-> IF vw[1] = vw[2] THEN d ELSE o * (vw[1] - vw[2])]
KernelOffset(k, g) == [v \in Vars |-> (k - 1) * (v + 1 + g)]

\* convective (upwind) kernel on edge iEdge
SetResidual_Conv(k, TurbVar_i, TurbVar_j, iEdge) ==
    LET Ji == KernelBlock(k + iEdge + 1, 1)
        Jj == KernelBlock(0 - k, 0 - 1)
    IN  [Residual   |-> VecAdd(VecAdd(BlkVec(Ji, TurbVar_i), BlkVec(Jj, TurbVar_j)),
                               KernelOffset(k, iEdge)),
         Jacobian_i |-> Ji,
         Jacobian_j |-> Jj]

\* viscous kernel on edge iEdge
SetResidual_Visc(k, TurbVar_i, TurbVar_j, iEdge) ==
    LET Ji == KernelBlock(0 - (k + 1), 0)
        Jj == KernelBlock(k + 1 + iEdge, 1)
    IN  [Residual   |-> VecAdd(VecAdd(BlkVec(Ji, TurbVar_i), BlkVec(Jj, TurbVar_j)),
                               KernelOffset(k, 1)),
         Jacobian_i |-> Ji,
         Jacobian_j |-> Jj]

\* source kernel at one point (second state and second block are NULL)
SetResidual_Source(k, TurbVar_i, Vol) ==
    LET Ji == KernelBlock(0 - k * Vol, 0)
    IN  [Residual   |-> VecAdd(BlkVec(Ji, TurbVar_i), KernelOffset(k, Vol)),
         Jacobian_i |-> Ji]

(***************************************************************************)
(* CVariable: the operations of a solution node the handlers call.         *)
(***************************************************************************)
SetResidualZero(nd, iPoint) ==
    [nd EXCEPT ![iPoint].Residual = [v \in DOMAIN @ |-> 0]]
AddResidual(nd, iPoint, val_residual) ==
    [nd EXCEPT ![iPoint].Residual = VecAdd(@, val_residual)]
SubtractResidual(nd, iPoint, val_residual) ==
    [nd EXCEPT ![iPoint].Residual = VecSub(@, val_residual)]
SetSolution_Old(nd, iPoint, val_solution) ==
    [nd EXCEPT ![iPoint].Solution_Old = val_solution]
\* The increment is applied to the old solution: this is what lets BC_NS_Wall,
\* which sets only the old solution, force the wall state at the update.
AddSolution(nd, iPoint, iVar, val_solution) ==
    [nd EXCEPT ![iPoint].Solution[iVar] = nd[iPoint].Solution_Old[iVar] + val_solution]

(***************************************************************************)
(* CSparseMatrix: the operations of the Jacobian the handlers call.        *)
(***************************************************************************)
SetValZero(J) == [rc \in DOMAIN J |-> ZeroBlk]
AddBlock(J, block_i, block_j, val_block) ==
    [J EXCEPT ![<<block_i, block_j>>] = BlkAdd(@, val_block)]
SubtractBlock(J, block_i, block_j, val_block) ==
    [J EXCEPT ![<<block_i, block_j>>] = BlkSub(@, val_block)]
\* zero every block of the point's row and put 1 on its diagonal
DeleteValsRowi(J, iPoint) ==
    [rc \in DOMAIN J |->
        IF rc[1] # iPoint THEN J[rc]
        ELSE IF rc[2] = iPoint THEN Identity ELSE ZeroBlk]
AddVal2Diag(J, iPoint, val) ==
    [J EXCEPT ![<<iPoint, iPoint>>] =
        [vw \in DOMAIN @ |-> IF vw[1] = vw[2] THEN @[vw] + val ELSE @[vw]]]

(***************************************************************************)
(* Construction (CTurbSASolution / CTurbSSTSolution constructors).         *)
(***************************************************************************)
Factor_nu_Inf == 3
Viscosity_Inf == 1          \* config->GetViscosity_FreeStreamND()
Density_Inf   == 1          \* config->GetDensity_FreeStreamND()
nu_tilde_Inf  == (Factor_nu_Inf * Viscosity_Inf) \div Density_Inf
kine_Inf      == 2
omega_Inf     == 5

\* One line of the restart file: the point index, nDim+2 flow columns, then
\* the column the constructors read into Solution[0].
restart_file(dim) == [iPoint \in Points |->
    <<iPoint>> \o [c \in 1 .. (dim + 2) |-> 0] \o <<2 * iPoint + 1>>]

\* point_line >> index >> dull_val ... >> Solution[0]
ReadLine(dim, text_line) == text_line[dim + 4]

CTurbSAVariable(val_nu_tilde) ==
    [Solution     |-> [v \in {0} |-> val_nu_tilde],
     Solution_Old |-> [v \in {0} |-> val_nu_tilde],
     Residual     |-> [v \in {0} |-> 0]]
CTurbSSTVariable(val_kine, val_omega) ==
    [Solution     |-> [v \in {0, 1} |-> IF v = 0 THEN val_kine ELSE val_omega],
     Solution_Old |-> [v \in {0, 1} |-> IF v = 0 THEN val_kine ELSE val_omega],
     Residual     |-> [v \in {0, 1} |-> 0]]

\* the node a constructor builds from one line of the restart file
CTurbSASolution_Restart_Node(dim, text_line) ==
    CTurbSAVariable(ReadLine(dim, text_line))
CTurbSSTSolution_Restart_Node(dim, text_line) ==
    CTurbSSTVariable(ReadLine(dim, text_line), 0)
\* the node a constructor builds when no restart is asked for
CTurbSASolution_Fresh_Node(turb_model) ==
    IF turb_model = "SA_COMP" THEN CTurbSAVariable(Density_Inf * nu_tilde_Inf)
    ELSE CTurbSAVariable(nu_tilde_Inf)
CTurbSSTSolution_Fresh_Node ==
    CTurbSSTVariable(Density_Inf * kine_Inf, Density_Inf * omega_Inf)

CTurbSASolution(dim, rst) ==
    [iPoint \in Points |->
        IF ~rst THEN CTurbSAVariable(nu_tilde_Inf)
        ELSE CTurbSASolution_Restart_Node(dim, restart_file(dim)[iPoint])]
CTurbSSTSolution(dim, rst) ==
    [iPoint \in Points |->
        IF ~rst THEN CTurbSSTSolution_Fresh_Node
        ELSE CTurbSSTSolution_Restart_Node(dim, restart_file(dim)[iPoint])]

\* values an array allocated with new double[] and never written may hold
Garbage == {0, 1}

\* no geometry is under construction while the solver runs
NoConstruction == [op |-> "none"]

(***************************************************************************)
(* Handlers: what each does to the nodes and to the Jacobian.              *)
(***************************************************************************)
Idle == [op |-> "idle", i |-> 0]
\* points whose residual or Jacobian row a step of a handler accumulates into
\* or zeroes without constraining them
Touched(op, arg) ==
    CASE op = "Preprocessing"            -> Points
      [] op = "Upwind_Residual"          -> {edge[arg][1], edge[arg][2]}
      [] op = "Viscous_Residual"         -> {edge[arg][1], edge[arg][2]}
      [] op = "SourcePieceWise_Residual" -> DomainPoints
      [] op \in {"BC_Far_Field", "BC_Inlet", "BC_Outlet"} -> VertexPoints(arg)
      [] OTHER                           -> {}
\* the label of a step: handler, index (edge, marker), the handler before,
\* the wall points no handler has touched since BC_NS_Wall constrained them,
\* and the calls of ImplicitEuler_Iteration since the last Preprocessing
Label(op, arg) == [op |-> op, arg |-> arg,
                   prev |-> IF pc.op = "idle" THEN <<step.op, step.arg>> ELSE step.prev,
                   wall |-> IF op = "BC_NS_Wall" THEN step.wall \cup VertexPoints(arg)
                            ELSE step.wall \ Touched(op, arg),
                   nImplicit |-> CASE op = "Preprocessing" -> 0
                                   [] op = "ImplicitEuler_Build" -> step.nImplicit + 1
                                   [] OTHER -> step.nImplicit]
\* the label before the first handler
FirstLabel == [op |-> "Init", arg |-> 0, prev |-> <<"Init", 0>>, wall |-> {}, nImplicit |-> 0]

RECURSIVE Preprocessing_node(_, _)
Preprocessing_node(nd, iPoint) ==
    IF iPoint = nPoint THEN nd
    ELSE Preprocessing_node(SetResidualZero(nd, iPoint), iPoint + 1)

\* one edge of Upwind_Residual: add to iPoint, subtract from jPoint
\* slip: the residual of the end points is overwritten instead of accumulated
Upwind_Residual_node_Sets(nd, iPoint, jPoint, R) ==
    [nd EXCEPT ![iPoint].Residual = R, ![jPoint].Residual = VecNeg(R)]
\* slip: the residual is added to both end points
Upwind_Residual_node_AddsBoth(nd, iPoint, jPoint, R) ==
    AddResidual(AddResidual(nd, iPoint, R), jPoint, R)
Upwind_Residual_node(nd, iPoint, jPoint, R) ==
    SubtractResidual(AddResidual(nd, iPoint, R), jPoint, R)
\* slip: the block of row jPoint, column iPoint is added instead of subtracted
Upwind_Residual_Jacobian_AddsJI(J, iPoint, jPoint, Ji, Jj) ==
    SubtractBlock(
      AddBlock(
        AddBlock(AddBlock(J, iPoint, iPoint, Ji), iPoint, jPoint, Jj),
        jPoint, iPoint, Ji),
      jPoint, jPoint, Jj)
Upwind_Residual_Jacobian(J, iPoint, jPoint, Ji, Jj) ==
    SubtractBlock(
      SubtractBlock(
        AddBlock(AddBlock(J, iPoint, iPoint, Ji), iPoint, jPoint, Jj),
        jPoint, iPoint, Ji),
      jPoint, jPoint, Jj)

\* one edge of Viscous_Residual: subtract from iPoint, add to jPoint
\* slip: the residual is subtracted from both end points
Viscous_Residual_node_SubtractsBoth(nd, iPoint, jPoint, R) ==
    SubtractResidual(SubtractResidual(nd, iPoint, R), jPoint, R)
Viscous_Residual_node(nd, iPoint, jPoint, R) ==
    AddResidual(SubtractResidual(nd, iPoint, R), jPoint, R)
\* slip: the block of row jPoint, column jPoint is subtracted instead of added
Viscous_Residual_Jacobian_SubtractsJJ(J, iPoint, jPoint, Ji, Jj) ==
    SubtractBlock(
      AddBlock(
        SubtractBlock(SubtractBlock(J, iPoint, iPoint, Ji), iPoint, jPoint, Jj),
        jPoint, iPoint, Ji),
      jPoint, jPoint, Jj)
Viscous_Residual_Jacobian(J, iPoint, jPoint, Ji, Jj) ==
    AddBlock(
      AddBlock(
        SubtractBlock(SubtractBlock(J, iPoint, iPoint, Ji), iPoint, jPoint, Jj),
        jPoint, iPoint, Ji),
      jPoint, jPoint, Jj)

\* one point of SourcePieceWise_Residual: subtract residual and block
SourcePieceWise_Residual_node(nd, iPoint, R) == SubtractResidual(nd, iPoint, R)
\* slip: the block is added while the residual is subtracted
SourcePieceWise_Residual_Jacobian_Adds(J, iPoint, Ji) == AddBlock(J, iPoint, iPoint, Ji)
SourcePieceWise_Residual_Jacobian(J, iPoint, Ji) == SubtractBlock(J, iPoint, iPoint, Ji)

\* the loop of SourcePieceWise_Residual over the domain points
RECURSIVE SourcePieceWise_Loop(_, _)
SourcePieceWise_Loop(st, iPoint) ==
    IF iPoint >= nPointDomain THEN st
    ELSE LET k == SetResidual_Source(kernel, st.node[iPoint].Solution, Volume(iPoint))
         IN  SourcePieceWise_Loop(
               [node       |-> SourcePieceWise_Residual_node(st.node, iPoint, k.Residual),
                Jacobian   |-> SourcePieceWise_Residual_Jacobian(st.Jacobian, iPoint, k.Jacobian_i),
                Residual   |-> k.Residual,
                Jacobian_i |-> k.Jacobian_i],
               iPoint + 1)

\* one vertex of BC_NS_Wall
\* slip: the residual of the wall point is not zeroed
BC_NS_Wall_node_KeepsResidual(nd, iPoint, Sol) ==
    SetSolution_Old(nd, iPoint, Sol)
BC_NS_Wall_node(nd, iPoint, Sol) ==
    SetResidualZero(SetSolution_Old(nd, iPoint, Sol), iPoint)
\* slip: the row of the wall point is not deleted
BC_NS_Wall_Jacobian_KeepsRow(J, iPoint) == J
BC_NS_Wall_Jacobian(J, iPoint) == DeleteValsRowi(J, iPoint)

RECURSIVE BC_NS_Wall_Loop(_, _, _)
BC_NS_Wall_Loop(st, val_marker, iVertex) ==
    IF iVertex > nVertex(val_marker) THEN st
    ELSE LET iPoint == vertex[val_marker][iVertex]
             Sol    == [iVar \in Vars |-> 0]
         IN  BC_NS_Wall_Loop(
               [node     |-> BC_NS_Wall_node(st.node, iPoint, Sol),
                Jacobian |-> BC_NS_Wall_Jacobian(st.Jacobian, iPoint),
                Solution |-> Sol],
               val_marker, iVertex + 1)

\* one vertex of BC_InterProcessor on a receive marker; the row is deleted
\* once per state component
RECURSIVE DeleteRowTimes(_, _, _)
DeleteRowTimes(J, iPoint, n) ==
    IF n = 0 THEN J ELSE DeleteRowTimes(DeleteValsRowi(J, iPoint), iPoint, n - 1)
BC_InterProcessor_node(nd, iPoint) == SetResidualZero(nd, iPoint)
BC_InterProcessor_Jacobian(J, iPoint) == DeleteRowTimes(J, iPoint, nVar)

\* slip: the send side is treated like the receive side
BC_InterProcessor_Acts_BothSides(SendRecv) == SendRecv # 0
\* which markers BC_InterProcessor acts on (MPI build: with NO_MPI defined
\* the body of the routine is compiled out)
BC_InterProcessor_Acts(SendRecv) == SendRecv < 0

RECURSIVE BC_InterProcessor_Loop(_, _, _)
BC_InterProcessor_Loop(st, val_marker, iVertex) ==
    IF iVertex > nVertex(val_marker) THEN st
    ELSE LET iPoint == vertex[val_marker][iVertex]
         IN  BC_InterProcessor_Loop(
               [node     |-> BC_InterProcessor_node(st.node, iPoint),
                Jacobian |-> BC_InterProcessor_Jacobian(st.Jacobian, iPoint)],
               val_marker, iVertex + 1)

(***************************************************************************)
(* Gradients and limiters (CSolution::SetSolution_Gradient_GG, _LS,        *)
(* SetSolution_Limiter) on the chain of points, whose x coordinate is      *)
(* twice the point index.                                                  *)
(***************************************************************************)
Left(p)  == IF p = 0 THEN p ELSE p - 1
Right(p) == IF p = nPoint - 1 THEN p ELSE p + 1
Min2(a, b) == IF a < b THEN a ELSE b
Max2(a, b) == IF a < b THEN b ELSE a
\* both methods give the difference across the neighbours of the point
SetSolution_Gradient_GG(sol) ==
    [p \in Points |-> [v \in DOMAIN sol[p] |-> sol[Right(p)][v] - sol[Left(p)][v]]]
SetSolution_Gradient_LS(sol) ==
    [p \in Points |-> [v \in DOMAIN sol[p] |-> sol[Right(p)][v] - sol[Left(p)][v]]]
SetSolution_Gradient(sol, method) ==
    IF method = "GREEN_GAUSS" THEN SetSolution_Gradient_GG(sol)
    ELSE SetSolution_Gradient_LS(sol)
\* Venkatakrishnan: 1 where the reconstruction stays between the neighbours'
\* values, 0 where it overshoots
SetSolution_Limiter(sol, grad) ==
    [p \in Points |-> [v \in DOMAIN sol[p] |->
        LET lo == Min2(sol[p][v], Min2(sol[Left(p)][v], sol[Right(p)][v]))
            hi == Max2(sol[p][v], Max2(sol[Left(p)][v], sol[Right(p)][v]))
        IN  IF /\ sol[p][v] + grad[p][v] <= hi /\ sol[p][v] + grad[p][v] >= lo
               /\ sol[p][v] - grad[p][v] <= hi /\ sol[p][v] - grad[p][v] >= lo
            THEN 1 ELSE 0]]
NodeSolution(nd) == [p \in Points |-> nd[p].Solution]

\* solution_container[FLOW_SOL] as the turbulence handlers see it
FlowSolver == [Solution |-> [p \in Points |-> [v \in {0} |-> (p + 1) * (p + 1)]],
               Gradient |-> [p \in Points |-> [v \in {0} |-> 0]]]
Flow_SetSolution_Gradient(fl, method) ==
    [fl EXCEPT !.Gradient = SetSolution_Gradient(fl.Solution, method)]

(***************************************************************************)
(* Second-order reconstruction of Upwind_Residual.                         *)
(***************************************************************************)
high_order_diss == config.Kind_Upwind_Turb = "SCALAR_UPWIND_2ND"
\* Vector_i = 0.5*(Coord_j - Coord_i) = 1 and Vector_j = -1 on every edge
Vector_i == 1
Vector_j == 0 - 1
Upwind_Residual_Reconstruct(turb_var, Vec, Grad, Lim) ==
    [iVar \in DOMAIN turb_var |->
        LET Project_Grad == Vec * Grad[iVar]
        IN  IF config.Kind_SlopeLimit_Turb = "NONE"
            THEN turb_var[iVar] + Project_Grad
            ELSE turb_var[iVar] + Project_Grad * Lim[iVar]]
\* what the entry of Upwind_Residual does before the edge loop
Upwind_Residual_flow(fl) ==
    IF high_order_diss THEN Flow_SetSolution_Gradient(fl, config.Kind_Gradient_Method)
    ELSE fl
Upwind_Residual_Limiter(Lim, nd, Grad) ==
    IF high_order_diss /\ config.Kind_SlopeLimit_Turb = "VENKATAKRISHNAN"
    THEN SetSolution_Limiter(NodeSolution(nd), Grad) ELSE Lim
\* what the entry of Viscous_Residual does before the edge loop
\* slip: the flow gradient is recomputed for every model
Viscous_Residual_flow_Always(fl) ==
    Flow_SetSolution_Gradient(fl, config.Kind_Gradient_Method)
Viscous_Residual_flow(fl) ==
    IF model = "SA" /\ config.Kind_Turb_Model = "SA_COMP"
    THEN Flow_SetSolution_Gradient(fl, config.Kind_Gradient_Method)
    ELSE fl

(***************************************************************************)
(* Jacobian blocks each handler addresses, as <<row point, column point>>. *)
(***************************************************************************)
\* slip: the block of row jPoint is addressed with the column before iPoint
Upwind_Residual_Blocks_Skips(iPoint, jPoint) ==
    {<<iPoint, iPoint>>, <<iPoint, jPoint>>, <<jPoint, Left(iPoint)>>, <<jPoint, jPoint>>}
Upwind_Residual_Blocks(iPoint, jPoint) ==
    {<<iPoint, iPoint>>, <<iPoint, jPoint>>, <<jPoint, iPoint>>, <<jPoint, jPoint>>}
Viscous_Residual_Blocks(iPoint, jPoint) ==
    {<<iPoint, iPoint>>, <<iPoint, jPoint>>, <<jPoint, iPoint>>, <<jPoint, jPoint>>}
SourcePieceWise_Residual_Blocks == {<<iPoint, iPoint>> : iPoint \in DomainPoints}
BC_Blocks(val_marker) == {<<iPoint, iPoint>> : iPoint \in VertexPoints(val_marker)}
\* DeleteValsRowi(iPoint) visits the blocks the matrix stores in that row
DeleteValsRowi_Blocks(J, Rows) == {rc \in DOMAIN J : rc[1] \in Rows}
ImplicitEuler_Build_Blocks == {<<iPoint, iPoint>> : iPoint \in DomainPoints}
\* SetValZero and LU_SGSIteration visit every block the matrix stores
Stored_Blocks(J) == DOMAIN J

(***************************************************************************)
(* BC_Far_Field, BC_Inlet, BC_Outlet: one kernel call per vertex with the  *)
(* interior state in Solution_i and the exterior state in Solution_j.      *)
(***************************************************************************)
\* Solution_j and the double behind it once the handler has set the exterior
\* state of a vertex.  CTurbSASolution has nVar = 1: an assignment to
\* Solution_j[iVar] after the loop over iVar lands behind the array.
\* slip: the free-stream value is assigned for both models
BC_Far_Field_Exterior_Assigns(Sj, end) ==
    [Solution_j |-> [Sj EXCEPT ![0] = nu_tilde_Inf], end |-> end]
BC_Far_Field_Exterior(Sj, end) ==
    IF model = "SA" THEN [Solution_j |-> [Sj EXCEPT ![0] = nu_tilde_Inf], end |-> end]
    ELSE [Solution_j |-> Sj, end |-> end]
BC_Inlet_Exterior(Sj, end) ==
    IF model = "SA" THEN [Solution_j |-> Sj, end |-> nu_tilde_Inf]
    ELSE [Solution_j |-> Sj, end |-> end]
\* behind: what node[iPoint]->GetSolution(nVar) reads behind the node's array
BC_Outlet_Exterior(Sj, end, behind) ==
    IF model = "SA" THEN [Solution_j |-> Sj, end |-> behind]
    ELSE [Solution_j |-> Sj, end |-> end]
BC_Exterior(kind, Sj, end, behind) ==
    CASE kind = "FAR_FIELD" -> BC_Far_Field_Exterior(Sj, end)
      [] kind = "INLET"     -> BC_Inlet_Exterior(Sj, end)
      [] OTHER              -> BC_Outlet_Exterior(Sj, end, behind)
\* the normal given to the kernel: CTurbSASolution and the far field of
\* CTurbSSTSolution change its sign
BC_Normal(kind, val_marker, iVertex) ==
    IF model = "SA" \/ kind = "FAR_FIELD"
    THEN 0 - VertexNormal(val_marker, iVertex)
    ELSE VertexNormal(val_marker, iVertex)

\* the component indices with which one pass of the vertex loop addresses
\* Solution_i, Solution_j and node[iPoint]->GetSolution(): the loop over iVar
\* uses 0 .. nVar-1 and leaves iVar = nVar for the statement that follows it
BC_Index(kind) ==
    Vars \cup (CASE model = "SA" /\ kind = "FAR_FIELD" -> {0}
                 [] model = "SA" /\ kind \in {"INLET", "OUTLET"} -> {nVar}
                 [] OTHER -> {})

RECURSIVE BC_Loop(_, _, _, _, _)
BC_Loop(st, kind, val_marker, iVertex, behind) ==
    IF iVertex > nVertex(val_marker) THEN st
    ELSE LET iPoint == vertex[val_marker][iVertex]
             Si     == [iVar \in Vars |-> st.node[iPoint].Solution[iVar]]
             ext    == BC_Exterior(kind, st.Solution_j, st.Solution_j_end, behind[iVertex])
             k      == SetResidual_Conv(kernel, Si, ext.Solution_j,
                                        BC_Normal(kind, val_marker, iVertex))
         IN  BC_Loop(
               [node           |-> AddResidual(st.node, iPoint, k.Residual),
                Jacobian       |-> AddBlock(st.Jacobian, iPoint, iPoint, k.Jacobian_i),
                Residual       |-> k.Residual,
                Jacobian_i     |-> k.Jacobian_i,
                Solution_i     |-> Si,
                Solution_j     |-> ext.Solution_j,
                Solution_j_end |-> ext.end,
                TurbVar        |-> Append(st.TurbVar,
                                     [iPoint |-> iPoint, i |-> Si, j |-> ext.Solution_j,
                                      Normal |-> BC_Normal(kind, val_marker, iVertex),
                                      index  |-> BC_Index(kind)])],
               kind, val_marker, iVertex + 1, behind)

(***************************************************************************)
(* ImplicitEuler_Iteration.                                                *)
(***************************************************************************)
total_index(iPoint, iVar) == iPoint * nVar + iVar
Indices == 0 .. (nPoint * nVar - 1)
PointVec(x, iPoint) == [v \in Vars |-> x[total_index(iPoint, v)]]
RECURSIVE SetPointVec(_, _, _, _)
SetPointVec(x, iPoint, val, iVar) ==
    IF iVar >= nVar THEN x
    ELSE SetPointVec([x EXCEPT ![total_index(iPoint, iVar)] = val[iVar]],
                     iPoint, val, iVar + 1)
WithPointVec(x, iPoint, val) == SetPointVec(x, iPoint, val, 0)

\* points whose rows the system-building and update loops visit
\* slip: the loops run over every point of the mesh, ghost points included
ImplicitEuler_Points_All == nPoint
ImplicitEuler_Points == nPointDomain

\* slip: the right-hand side gets the residual without the sign change
ImplicitEuler_rhs_NoSign(local_Residual) == local_Residual
\* right-hand side entry built from a residual entry
ImplicitEuler_rhs(local_Residual) == VecNeg(local_Residual)

\* pseudo-time term added to the diagonal of block (iPoint, iPoint)
ImplicitEuler_Delta(iPoint) == Volume(iPoint) \div Delta_Time(iPoint)
\* slip: the pseudo-time term replaces the diagonal instead of being added
ImplicitEuler_Diag_Sets(J, iPoint) ==
    [J EXCEPT ![<<iPoint, iPoint>>] =
        [vw \in VarPairs |-> IF vw[1] = vw[2] THEN ImplicitEuler_Delta(iPoint)
                             ELSE @[vw]]]
ImplicitEuler_Diag(J, iPoint) == AddVal2Diag(J, iPoint, ImplicitEuler_Delta(iPoint))

\* AddRes_Max(iVar, local_Residual[iVar]*local_Residual[iVar]*Vol)
AddRes_Max(res_max, local_Residual, Vol) ==
    [v \in Vars |-> res_max[v] + local_Residual[v] * local_Residual[v] * Vol]

\* slip: the accumulator is not reset at the start of the call
ImplicitEuler_ResetMax_Keeps(res_max) == res_max
\* the accumulator the system-building loop starts from: SetRes_Max(iVar, 0.0)
ImplicitEuler_ResetMax(res_max) == [v \in Vars |-> 0]

RECURSIVE ImplicitEuler_BuildLoop(_, _)
ImplicitEuler_BuildLoop(st, iPoint) ==
    IF iPoint >= ImplicitEuler_Points THEN st
    ELSE LET local_Residual == st.node[iPoint].Residual
             Vol            == Volume(iPoint)
         IN  ImplicitEuler_BuildLoop(
               [node         |-> st.node,
                Jacobian     |-> ImplicitEuler_Diag(st.Jacobian, iPoint),
                rhs          |-> WithPointVec(st.rhs, iPoint, ImplicitEuler_rhs(local_Residual)),
                xsol         |-> WithPointVec(st.xsol, iPoint, [v \in Vars |-> 0]),
                Residual_Max |-> AddRes_Max(st.Residual_Max, local_Residual, Vol)],
               iPoint + 1)

\* sqrt() on the integers: the largest r with r*r <= n (Newton's iteration)
RECURSIVE sqrtFrom(_, _)
sqrtFrom(n, r) ==
    LET r1 == (r + n \div r) \div 2
    IN  IF r1 >= r THEN r ELSE sqrtFrom(n, r1)
sqrt(n) == IF n <= 0 THEN 0 ELSE sqrtFrom(n, n)

\* --- Jacobian.LU_SGSIteration(rhs, xsol): one symmetric Gauss-Seidel sweep ---
Det(D) == IF nVar = 1 THEN D[<<0, 0>>]
          ELSE D[<<0, 0>>] * D[<<1, 1>>] - D[<<0, 1>>] * D[<<1, 0>>]
\* exact inversion of the small diagonal block (quotients rounded down)
Gauss_Elimination(D, y) ==
    IF nVar = 1 THEN [v \in Vars |-> y[0] \div D[<<0, 0>>]]
    ELSE [v \in Vars |->
            IF v = 0 THEN (y[0] * D[<<1, 1>>] - y[1] * D[<<0, 1>>]) \div Det(D)
            ELSE (D[<<0, 0>>] * y[1] - D[<<1, 0>>] * y[0]) \div Det(D)]
\* sum over the columns q in Cols of block (iPoint, q) times x_q
RowProduct(J, x, iPoint, Cols) ==
    [v \in Vars |->
        SumOver({q \in Cols : <<iPoint, q>> \in DOMAIN J},
                [q \in Points |->
                    IF <<iPoint, q>> \in DOMAIN J
                    THEN BlkVec(J[<<iPoint, q>>], PointVec(x, q))[v] ELSE 0])]
RECURSIVE LU_SGS_Forward(_, _, _, _)
LU_SGS_Forward(J, b, x, iPoint) ==
    IF iPoint >= nPoint THEN x
    ELSE LET low == RowProduct(J, x, iPoint, {q \in Points : q < iPoint})
             aux == VecSub(PointVec(b, iPoint), low)
         IN  LU_SGS_Forward(J, b,
                 WithPointVec(x, iPoint, Gauss_Elimination(J[<<iPoint, iPoint>>], aux)),
                 iPoint + 1)
RECURSIVE LU_SGS_Backward(_, _, _)
LU_SGS_Backward(J, x, iPoint) ==
    IF iPoint < 0 THEN x
    ELSE LET dia == BlkVec(J[<<iPoint, iPoint>>], PointVec(x, iPoint))
             up  == RowProduct(J, x, iPoint, {q \in Points : q > iPoint})
         IN  LU_SGS_Backward(J,
                 WithPointVec(x, iPoint,
                     Gauss_Elimination(J[<<iPoint, iPoint>>], VecSub(dia, up))),
                 iPoint - 1)
LU_SGSIteration(J, b, x) == LU_SGS_Backward(J, LU_SGS_Forward(J, b, x, 0), nPoint - 1)
\* the sweep divides by every diagonal block
Regular(J) == \A p \in Points : Det(J[<<p, p>>]) # 0

\* update loop: node[iPoint]->AddSolution(iVar, xsol[iPoint*nVar+iVar])
RECURSIVE ImplicitEuler_UpdateVar(_, _, _, _)
ImplicitEuler_UpdateVar(nd, x, iPoint, iVar) ==
    IF iVar >= nVar THEN nd
    ELSE ImplicitEuler_UpdateVar(
             AddSolution(nd, iPoint, iVar, x[total_index(iPoint, iVar)]),
             x, iPoint, iVar + 1)
RECURSIVE ImplicitEuler_UpdateLoop(_, _, _)
ImplicitEuler_UpdateLoop(nd, x, iPoint) ==
    IF iPoint >= ImplicitEuler_Points THEN nd
    ELSE ImplicitEuler_UpdateLoop(ImplicitEuler_UpdateVar(nd, x, iPoint, 0), x, iPoint + 1)

(***************************************************************************)
(* Spec: one domain.  The driver may call the handlers in any order; a     *)
(* handler runs to its end before the next one starts.                     *)
(***************************************************************************)
Enter == pc.op = "idle" /\ nOps < MaxOps

Preprocessing ==
    /\ Enter
    /\ node' = Preprocessing_node(node, 0)
    /\ Jacobian' = SetValZero(Jacobian)
    /\ Gradient' = SetSolution_Gradient(NodeSolution(node), config.Kind_Gradient_Method)
    /\ access' = Stored_Blocks(Jacobian)
    /\ step' = Label("Preprocessing", 0)
    /\ nOps' = nOps + 1
    /\ since' = {}
    /\ UNCHANGED <<model, kernel, rhs, xsol, Residual_Max, Residual, Jacobian_i,
                   Jacobian_j, Solution, pc, nDim, haloVars, geomVars, ctorVars>>
    /\ UNCHANGED <<config, Solution_i, Solution_j, Solution_j_end, Limiter, flow, TurbVar>>

\* One pass of the edge loop of Upwind_Residual.  The call enters at edge 0,
\* where a second-order scheme first has the flow solver compute its gradient
\* and the limiter set, and returns after the last edge.  First order gives
\* the kernel the node states, second order the states reconstructed into
\* Solution_i and Solution_j.
Upwind_Residual ==
    /\ Enter \/ pc.op = "Upwind_Residual"
    /\ LET iEdge  == IF pc.op = "idle" THEN 0 ELSE pc.i
           iPoint == edge[iEdge][1]
           jPoint == edge[iEdge][2]
           Lim    == IF pc.op = "idle" THEN Upwind_Residual_Limiter(Limiter, node, Gradient)
                     ELSE Limiter
           turb_var_i == node[iPoint].Solution
           turb_var_j == node[jPoint].Solution
           Si     == IF high_order_diss
                     THEN Upwind_Residual_Reconstruct(turb_var_i, Vector_i,
                                                      Gradient[iPoint], Lim[iPoint])
                     ELSE Solution_i
           Sj     == IF high_order_diss
                     THEN Upwind_Residual_Reconstruct(turb_var_j, Vector_j,
                                                      Gradient[jPoint], Lim[jPoint])
                     ELSE Solution_j
           Ti     == IF high_order_diss THEN Si ELSE turb_var_i
           Tj     == IF high_order_diss THEN Sj ELSE turb_var_j
           k      == SetResidual_Conv(kernel, Ti, Tj, iEdge)
       IN  /\ flow' = IF pc.op = "idle" THEN Upwind_Residual_flow(flow) ELSE flow
           /\ Limiter' = Lim
           /\ Solution_i' = Si
           /\ Solution_j' = Sj
           /\ TurbVar' = <<[iPoint |-> iPoint, i |-> Ti, j |-> Tj]>>
           /\ Residual' = k.Residual
           /\ Jacobian_i' = k.Jacobian_i
           /\ Jacobian_j' = k.Jacobian_j
           /\ node' = Upwind_Residual_node(node, iPoint, jPoint, k.Residual)
           /\ Jacobian' = Upwind_Residual_Jacobian(Jacobian, iPoint, jPoint,
                                                   k.Jacobian_i, k.Jacobian_j)
           /\ access' = Upwind_Residual_Blocks(iPoint, jPoint)
           /\ step' = Label("Upwind_Residual", iEdge)
           /\ pc' = IF iEdge + 1 < nEdge
                    THEN [op |-> "Upwind_Residual", i |-> iEdge + 1] ELSE Idle
    /\ nOps' = IF pc.op = "idle" THEN nOps + 1 ELSE nOps
    /\ since' = since \cup {"Upwind_Residual"}
    /\ UNCHANGED <<model, kernel, rhs, xsol, Residual_Max, Solution, nDim, haloVars,
                   geomVars, ctorVars>>
    /\ UNCHANGED <<config, Solution_j_end, Gradient>>

\* One pass of the edge loop of Viscous_Residual (implicit time integration).
Viscous_Residual ==
    /\ Enter \/ pc.op = "Viscous_Residual"
    /\ LET iEdge  == IF pc.op = "idle" THEN 0 ELSE pc.i
           iPoint == edge[iEdge][1]
           jPoint == edge[iEdge][2]
           k      == SetResidual_Visc(kernel, node[iPoint].Solution,
                                      node[jPoint].Solution, iEdge)
       IN  /\ flow' = IF pc.op = "idle" THEN Viscous_Residual_flow(flow) ELSE flow
           /\ TurbVar' = <<[iPoint |-> iPoint, i |-> node[iPoint].Solution,
                            j |-> node[jPoint].Solution]>>
           /\ Residual' = k.Residual
           /\ Jacobian_i' = k.Jacobian_i
           /\ Jacobian_j' = k.Jacobian_j
           /\ node' = Viscous_Residual_node(node, iPoint, jPoint, k.Residual)
           /\ Jacobian' = Viscous_Residual_Jacobian(Jacobian, iPoint, jPoint,
                                                    k.Jacobian_i, k.Jacobian_j)
           /\ access' = Viscous_Residual_Blocks(iPoint, jPoint)
           /\ step' = Label("Viscous_Residual", iEdge)
           /\ pc' = IF iEdge + 1 < nEdge
                    THEN [op |-> "Viscous_Residual", i |-> iEdge + 1] ELSE Idle
    /\ nOps' = IF pc.op = "idle" THEN nOps + 1 ELSE nOps
    /\ since' = since \cup {"Viscous_Residual"}
    /\ UNCHANGED <<model, kernel, rhs, xsol, Residual_Max, Solution, nDim, haloVars,
                   geomVars, ctorVars>>
    /\ UNCHANGED <<config, Solution_i, Solution_j, Solution_j_end, Gradient, Limiter>>

SourcePieceWise_Residual ==
    /\ Enter
    /\ LET st == SourcePieceWise_Loop(
                   [node |-> node, Jacobian |-> Jacobian, Residual |-> Residual,
                    Jacobian_i |-> Jacobian_i], 0)
       IN  /\ node' = st.node
           /\ Jacobian' = st.Jacobian
           /\ Residual' = st.Residual
           /\ Jacobian_i' = st.Jacobian_i
    /\ TurbVar' = [n \in 1 .. nPointDomain |->
                     [iPoint |-> n - 1, i |-> node[n - 1].Solution, j |-> <<>>]]
    /\ access' = SourcePieceWise_Residual_Blocks
    /\ step' = Label("SourcePieceWise_Residual", 0)
    /\ nOps' = nOps + 1
    /\ since' = since \cup {"SourcePieceWise_Residual"}
    /\ UNCHANGED <<model, kernel, rhs, xsol, Residual_Max, Jacobian_j, Solution,
                   pc, nDim, haloVars, geomVars, ctorVars>>
    /\ UNCHANGED <<config, Solution_i, Solution_j, Solution_j_end, Gradient, Limiter, flow>>

\* The driver calls BC_NS_Wall on the markers configured as walls.
BC_NS_Wall(val_marker) ==
    /\ Enter
    /\ Marker_All_Boundary[val_marker] = "NS_WALL"
    /\ LET st == BC_NS_Wall_Loop(
                   [node |-> node, Jacobian |-> Jacobian, Solution |-> Solution],
                   val_marker, 1)
       IN  /\ node' = st.node
           /\ Jacobian' = st.Jacobian
           /\ Solution' = st.Solution
    /\ access' = DeleteValsRowi_Blocks(Jacobian, VertexPoints(val_marker))
    /\ step' = Label("BC_NS_Wall", val_marker)
    /\ nOps' = nOps + 1
    /\ since' = since \cup {"BC_NS_Wall"}
    /\ UNCHANGED <<model, kernel, rhs, xsol, Residual_Max, Residual, Jacobian_i,
                   Jacobian_j, pc, nDim, haloVars, geomVars, ctorVars>>
    /\ UNCHANGED <<config, Solution_i, Solution_j, Solution_j_end, Gradient, Limiter,
                   flow, TurbVar>>

\* The body shared by BC_Far_Field, BC_Inlet and BC_Outlet: the driver calls
\* the routine of the marker's kind.  behind[iVertex] is the value a read
\* behind the end of the node's solution array returns.
BC_Call(kind, val_marker) ==
    /\ Enter
    /\ Marker_All_Boundary[val_marker] = kind
    /\ \E behind \in [1 .. nVertex(val_marker) -> Garbage] :
         LET st == BC_Loop(
                     [node |-> node, Jacobian |-> Jacobian, Residual |-> Residual,
                      Jacobian_i |-> Jacobian_i, Solution_i |-> Solution_i,
                      Solution_j |-> Solution_j, Solution_j_end |-> Solution_j_end,
                      TurbVar |-> <<>>],
                     kind, val_marker, 1, behind)
         IN  /\ node' = st.node
             /\ Jacobian' = st.Jacobian
             /\ Residual' = st.Residual
             /\ Jacobian_i' = st.Jacobian_i
             /\ Solution_i' = st.Solution_i
             /\ Solution_j' = st.Solution_j
             /\ Solution_j_end' = st.Solution_j_end
             /\ TurbVar' = st.TurbVar
    /\ access' = BC_Blocks(val_marker)
    /\ nOps' = nOps + 1
    /\ UNCHANGED <<model, kernel, rhs, xsol, Residual_Max, Jacobian_j, Solution,
                   pc, nDim, haloVars, geomVars, ctorVars>>
    /\ UNCHANGED <<config, Gradient, Limiter, flow>>

BC_Far_Field(val_marker) ==
    /\ BC_Call("FAR_FIELD", val_marker)
    /\ step' = Label("BC_Far_Field", val_marker)
    /\ since' = since \cup {"BC_Far_Field"}

BC_Inlet(val_marker) ==
    /\ BC_Call("INLET", val_marker)
    /\ step' = Label("BC_Inlet", val_marker)
    /\ since' = since \cup {"BC_Inlet"}

BC_Outlet(val_marker) ==
    /\ BC_Call("OUTLET", val_marker)
    /\ step' = Label("BC_Outlet", val_marker)
    /\ since' = since \cup {"BC_Outlet"}

BC_InterProcessor(val_marker) ==
    /\ Enter
    /\ LET SendRecv == Marker_All_SendRecv[val_marker]
           st == IF BC_InterProcessor_Acts(SendRecv)
                 THEN BC_InterProcessor_Loop(
                        [node |-> node, Jacobian |-> Jacobian], val_marker, 1)
                 ELSE [node |-> node, Jacobian |-> Jacobian]
       IN  /\ node' = st.node
           /\ Jacobian' = st.Jacobian
           /\ access' = IF BC_InterProcessor_Acts(SendRecv)
                        THEN DeleteValsRowi_Blocks(Jacobian, VertexPoints(val_marker))
                        ELSE {}
    /\ step' = Label("BC_InterProcessor", val_marker)
    /\ nOps' = nOps + 1
    /\ since' = since \cup {"BC_InterProcessor"}
    /\ UNCHANGED <<model, kernel, rhs, xsol, Residual_Max, Residual, Jacobian_i,
                   Jacobian_j, Solution, pc, nDim, haloVars, geomVars, ctorVars>>
    /\ UNCHANGED <<config, Solution_i, Solution_j, Solution_j_end, Gradient, Limiter,
                   flow, TurbVar>>

\* ImplicitEuler_Iteration up to the call of the linear solver.  The solver
\* divides by the diagonal blocks: a system with a singular one has no
\* finite solution and is left out.
ImplicitEuler_Build ==
    /\ Enter
    /\ LET st == ImplicitEuler_BuildLoop(
                   [node |-> node, Jacobian |-> Jacobian, rhs |-> rhs, xsol |-> xsol,
                    Residual_Max |-> ImplicitEuler_ResetMax(Residual_Max)], 0)
       IN  /\ Regular(st.Jacobian)
           /\ Jacobian' = st.Jacobian
           /\ rhs' = st.rhs
           /\ xsol' = st.xsol
           /\ Residual_Max' = st.Residual_Max
    /\ access' = ImplicitEuler_Build_Blocks
    /\ pc' = [op |-> "ImplicitEuler_Iteration", i |-> 0]
    /\ step' = Label("ImplicitEuler_Build", 0)
    /\ nOps' = nOps + 1
    /\ since' = since \cup {"ImplicitEuler_Iteration"}
    /\ UNCHANGED <<model, kernel, node, Residual, Jacobian_i, Jacobian_j, Solution,
                   nDim, haloVars, geomVars, ctorVars>>
    /\ UNCHANGED <<config, Solution_i, Solution_j, Solution_j_end, Gradient, Limiter,
                   flow, TurbVar>>

\* The rest of ImplicitEuler_Iteration: solve, update, square root.
ImplicitEuler_Solve ==
    /\ pc.op = "ImplicitEuler_Iteration"
    /\ LET x == LU_SGSIteration(Jacobian, rhs, xsol)
       IN  /\ xsol' = x
           /\ node' = ImplicitEuler_UpdateLoop(node, x, 0)
    /\ Residual_Max' = [iVar \in Vars |-> sqrt(Residual_Max[iVar])]
    /\ access' = Stored_Blocks(Jacobian)
    /\ pc' = Idle
    /\ step' = Label("ImplicitEuler_Iteration", 0)
    /\ UNCHANGED since
    /\ UNCHANGED <<model, kernel, Jacobian, rhs, Residual, Jacobian_i, Jacobian_j,
                   Solution, nOps, nDim, haloVars, geomVars, ctorVars>>
    /\ UNCHANGED <<config, Solution_i, Solution_j, Solution_j_end, Gradient, Limiter,
                   flow, TurbVar>>

\* The scratch arrays, gradients and flow solver right after construction and
\* the first Preprocessing: every scratch entry holds g.
Constructed(cfg, g) ==
    /\ config = cfg
    /\ Solution_i = [v \in 0 .. (nVarOf(model) - 1) |-> g]
    /\ Solution_j = [v \in 0 .. (nVarOf(model) - 1) |-> g]
    /\ Solution_j_end = g
    /\ Gradient = SetSolution_Gradient(NodeSolution(node), cfg.Kind_Gradient_Method)
    /\ Limiter = [p \in Points |-> [v \in 0 .. (nVarOf(model) - 1) |-> 0]]
    /\ flow = FlowSolver
    /\ TurbVar = <<>>
    /\ access = {}
\* no constructor is running
NoConstructor == [pc |-> "done"]

\* State at the start of the first time step: construction, then Preprocessing.
Start(all_configs) ==
    /\ model \in {"SA", "SST"}
    /\ kernel \in 1 .. MaxKernel
    /\ nDim = 2
    /\ \E restart \in (IF all_configs THEN {TRUE} ELSE BOOLEAN) :
         node = Preprocessing_node(
                  IF model = "SA" THEN CTurbSASolution(nDim, restart)
                  ELSE CTurbSSTSolution(nDim, restart), 0)
    /\ Jacobian = [rc \in Pattern |-> [vw \in (0 .. (nVarOf(model) - 1)) \X (0 .. (nVarOf(model) - 1)) |-> 0]]
    /\ \E g \in Garbage :
         /\ rhs = [i \in 0 .. (nPoint * nVarOf(model) - 1) |-> g]
         /\ xsol = [i \in 0 .. (nPoint * nVarOf(model) - 1) |-> g]
         /\ Residual_Max = [v \in 0 .. (nVarOf(model) - 1) |-> g]
         /\ Residual = [v \in 0 .. (nVarOf(model) - 1) |-> g]
         /\ Solution = [v \in 0 .. (nVarOf(model) - 1) |-> g]
         /\ Jacobian_i = [vw \in (0 .. (nVarOf(model) - 1)) \X (0 .. (nVarOf(model) - 1)) |-> g]
         /\ Jacobian_j = [vw \in (0 .. (nVarOf(model) - 1)) \X (0 .. (nVarOf(model) - 1)) |-> g]
         /\ \E cfg \in (IF all_configs THEN Configs(model) ELSE {DefaultConfig(model)}) :
              Constructed(cfg, g)
    /\ pc = Idle
    /\ step = FirstLabel
    /\ nOps = 0
    /\ since = {}
    /\ dom = <<>>
    /\ net = <<>>
    /\ mpilog = <<>>
    /\ grid = <<>>
    /\ gpc = NoConstruction
    /\ rfile = <<>>
    /\ proc = NoConstructor

\* walls and interprocessor boundaries, first-order upwinding
Init == Start(FALSE)

Next ==
    \/ Preprocessing
    \/ Upwind_Residual
    \/ Viscous_Residual
    \/ SourcePieceWise_Residual
    \/ \E val_marker \in Markers : BC_NS_Wall(val_marker)
    \/ \E val_marker \in Markers : BC_InterProcessor(val_marker)
    \/ ImplicitEuler_Build
    \/ ImplicitEuler_Solve

Spec == Init /\ [][Next]_vars

\* SpecAsm: the same domain under every configuration of Configs, started from
\* a restart file (the states differ from point to point), with the far-field,
\* inlet and outlet routines; runs of at most MaxAsmOps handlers.
MaxAsmOps == 2     \* handlers called in one run of SpecAsm
AsmInit == Start(TRUE)
AsmBound == pc.op # "idle" \/ nOps < MaxAsmOps
AsmNext ==
    \/ AsmBound /\ Preprocessing
    \/ AsmBound /\ Upwind_Residual
    \/ AsmBound /\ Viscous_Residual
    \/ AsmBound /\ SourcePieceWise_Residual
    \/ AsmBound /\ \E val_marker \in Markers : BC_NS_Wall(val_marker)
    \/ AsmBound /\ \E val_marker \in Markers : BC_Far_Field(val_marker)
    \/ AsmBound /\ \E val_marker \in Markers : BC_Inlet(val_marker)
    \/ AsmBound /\ \E val_marker \in Markers : BC_Outlet(val_marker)
    \/ AsmBound /\ \E val_marker \in Markers : BC_InterProcessor(val_marker)
    \/ AsmBound /\ ImplicitEuler_Build
    \/ AsmBound /\ ImplicitEuler_Solve
SpecAsm == AsmInit /\ [][AsmNext]_vars

(***************************************************************************)
(* Properties of the assembly and of the implicit update (Spec).           *)
(***************************************************************************)
RowDeleted(J, p) ==
    \A rc \in DOMAIN J :
        rc[1] = p => J[rc] = (IF rc[2] = p THEN Identity ELSE ZeroBlk)
RowDecoupled(J, p) ==
    \A rc \in DOMAIN J : (rc[1] = p /\ rc[2] # p) => J[rc] = ZeroBlk
ResidualSum == [v \in Vars |-> SumOver(Points, [p \in Points |-> node[p].Residual[v]])]

\* C1: every edge step of Upwind_Residual, with kernel outputs R, Ji, Jj, adds
\* R to the residual of iPoint, subtracts R from the residual of jPoint, adds
\* Ji to block (i,i) and Jj to (i,j), subtracts Ji from (j,i) and Jj from
\* (j,j), and changes no other residual and no other block.
C1_UpwindEdgeStep ==
    [][step'.op = "Upwind_Residual" =>
        LET i  == edge[step'.arg][1]
            j  == edge[step'.arg][2]
            R  == Residual'
            Ji == Jacobian_i'
            Jj == Jacobian_j'
        IN  /\ node'[i].Residual = VecAdd(node[i].Residual, R)
            /\ node'[j].Residual = VecSub(node[j].Residual, R)
            /\ \A p \in Points \ {i, j} : node'[p].Residual = node[p].Residual
            /\ Jacobian'[<<i, i>>] = BlkAdd(Jacobian[<<i, i>>], Ji)
            /\ Jacobian'[<<i, j>>] = BlkAdd(Jacobian[<<i, j>>], Jj)
            /\ Jacobian'[<<j, i>>] = BlkSub(Jacobian[<<j, i>>], Ji)
            /\ Jacobian'[<<j, j>>] = BlkSub(Jacobian[<<j, j>>], Jj)
            /\ \A rc \in Pattern \ {<<i, i>>, <<i, j>>, <<j, i>>, <<j, j>>} :
                   Jacobian'[rc] = Jacobian[rc]
    ]_vars
\* an edge step with a non-zero kernel residual and non-zero blocks has run
C1_Witness ==
    /\ step.op = "Upwind_Residual"
    /\ step.arg = nEdge - 1
    /\ Residual # ZeroVec
    /\ Jacobian_i # ZeroBlk
    /\ Jacobian_j # ZeroBlk
    /\ node[edge[step.arg][1]].Residual # ZeroVec

\* C2: as long as only interior edge loops (Upwind_Residual, Viscous_Residual)
\* and the implicit update, which writes no residual, have run since the
\* residuals were zeroed, the residuals of all points sum to zero in every
\* component; a non-zero sum needs a source or boundary operation.
InteriorOnly == {"Upwind_Residual", "Viscous_Residual", "ImplicitEuler_Iteration"}
C2_Telescoping == (since \subseteq InteriorOnly) => ResidualSum = ZeroVec
\* both edge loops have run to their end and left non-zero residuals
C2_Witness ==
    /\ pc.op = "idle"
    /\ since = {"Upwind_Residual", "Viscous_Residual"}
    /\ \A p \in Points : node[p].Residual # ZeroVec
    /\ step.op = "Viscous_Residual"
    /\ Residual # ZeroVec

C6_Monitor ==
    [][/\ step'.op = "ImplicitEuler_Build" =>
            Residual_Max' =
                [k \in Vars |->
                    SumOver(DomainPoints,
                        [p \in DomainPoints |->
                            node[p].Residual[k] * node[p].Residual[k] * Volume(p)])]
       /\ step'.op = "ImplicitEuler_Iteration" =>
            /\ Residual_Max' = [k \in Vars |-> sqrt(Residual_Max[k])]
            /\ \A p \in Points : node'[p].Residual = node[p].Residual
    ]_vars
\* a call has reported a non-zero monitor while a ghost point held a residual
\* and the accumulator held an earlier value
C6_Witness ==
    /\ step.op = "ImplicitEuler_Iteration"
    /\ step.prev[1] = "ImplicitEuler_Iteration"
    /\ \E k \in Vars : Residual_Max[k] > 0
    /\ node[nPoint - 1].Residual # ZeroVec

\* C7: BC_InterProcessor on a marker with a negative tag zeroes the residual
\* of every vertex point of the marker and deletes its Jacobian row; on a
\* marker with a positive or zero tag it changes no residual and no block.
C7_InterProcessor ==
    [][step'.op = "BC_InterProcessor" =>
        IF Marker_All_SendRecv[step'.arg] < 0
        THEN \A p \in VertexPoints(step'.arg) :
                 node'[p].Residual = ZeroVec /\ RowDeleted(Jacobian', p)
        ELSE /\ \A p \in Points : node'[p].Residual = node[p].Residual
             /\ Jacobian' = Jacobian
    ]_vars
\* BC_InterProcessor has run on the receive marker whose point held a residual
C7_Witness ==
    /\ step.op = "BC_InterProcessor"
    /\ Marker_All_SendRecv[step.arg] < 0
    /\ step.prev[1] = "Upwind_Residual"
    /\ \E q \in Points \ VertexPoints(step.arg) : node[q].Residual # ZeroVec
    /\ \A p \in VertexPoints(step.arg) : RowDeleted(Jacobian, p)

(***************************************************************************)
(* SpecHalo: two domains, MPI ranks 1 and 2.  Each runs the driver's loop  *)
(* of BC_Send_Receive over its markers (MPI build, NO_MPI undefined).  A   *)
(* call is split at its MPI calls: a receive blocks until a message of the *)
(* source and tag it asks for has been posted.                             *)
(***************************************************************************)
nVertexHalo == 2     \* vertices of a send marker and of a receive marker
Ranks       == {1, 2}
Tags        == 0 .. 3
HaloPoints  == 0 .. (3 * nVertexHalo - 1)
HaloDomain  == 0 .. (nVertexHalo - 1)      \* points the domain owns; the rest are ghosts

\* kinds of the markers of a domain in the order the driver visits them
Layouts == {<<"send", "recv", "none">>, <<"none", "send", "recv">>,
            <<"recv", "send", "none">>, <<"recv", "none", "send">>}
\* config->GetMarker_All_SendRecv(val_marker) of rank r: the other rank,
\* negative on the receive marker, 0 on a marker that is no halo boundary
Halo_SendRecv(r, layout) ==
    [m \in Markers |->
        CASE layout[m + 1] \in {"send", "send2"} -> 3 - r
          [] layout[m + 1] \in {"recv", "recv2"} -> 0 - (3 - r)
          [] OTHER -> 0]
\* geometry->nVertex[val_marker] and geometry->vertex[val_marker][iVertex]->GetNode()
Halo_nVertex(SendRecv) == IF SendRecv = 0 THEN 1 ELSE nVertexHalo
Halo_vertex(SendRecv) ==
    [iVertex \in 0 .. (Halo_nVertex(SendRecv) - 1) |->
        IF SendRecv > 0 THEN nVertexHalo - 1 - iVertex
        ELSE IF SendRecv < 0 THEN nVertexHalo + iVertex
        ELSE 0]

\* the vertices of a second pair of markers between the same two domains:
\* the send marker lists the owned points in the other order, the receive
\* marker has ghost points of its own
Halo_vertex2(SendRecv) ==
    [iVertex \in 0 .. (Halo_nVertex(SendRecv) - 1) |->
        IF SendRecv > 0 THEN iVertex
        ELSE IF SendRecv < 0 THEN 2 * nVertexHalo + iVertex
        ELSE 0]
\* geometry->vertex[val_marker] of rank r for every marker of a layout
Halo_vertices(r, layout) ==
    [m \in Markers |->
        IF layout[m + 1] \in {"send2", "recv2"}
        THEN Halo_vertex2(Halo_SendRecv(r, layout)[m])
        ELSE Halo_vertex(Halo_SendRecv(r, layout)[m])]

\* node[iPoint] of rank r before the exchange: solution and gradient.  The
\* gradient row is modelled with three columns; in 2-D the last one stands
\* for what lies behind the row and is not part of the gradient.
Halo_node(r) ==
    [iPoint \in HaloPoints |->
        [Solution |-> [iVar \in Vars |-> 100 * r + 10 * iPoint + iVar + 1],
         Gradient |-> [iVar \in Vars |->
                         [iDim \in 0 .. 2 |-> 1000 * r + 100 * iPoint + 10 * iVar + iDim + 2]]]]

\* CVariable::SetSolution(iVar, val) and SetGradient(iVar, iDim, val)
SetSolution(nd, iPoint, iVar, val) == [nd EXCEPT ![iPoint].Solution[iVar] = val]
SetGradient(nd, iPoint, iVar, iDim, val) == [nd EXCEPT ![iPoint].Gradient[iVar][iDim] = val]

\* nBuffer_Vector, send_to, receive_from
nBuffer_Vector(SendRecv) == Halo_nVertex(SendRecv) * nVar
send_to(SendRecv) == SendRecv
\* slip: the source rank is taken with the sign of the marker's tag
receive_from_Signed(SendRecv) == SendRecv
receive_from(SendRecv) == IF SendRecv < 0 THEN 0 - SendRecv ELSE SendRecv

\* the last tag of a marker's messages: the z gradient exists only in 3-D
LastTag_Always3(dim) == 3
LastTag(dim) == IF dim = 3 THEN 3 ELSE 2

\* the MPI call that posts a message
BC_Send_Receive_SendCall_Ssend == "Ssend"
BC_Send_Receive_SendCall == "Bsend"

\* Buffer_Send_Turb, _Turbx, _Turby, _Turbz after the packing loop, by tag;
\* entry iVertex*nVar + iVar is Buffer[iVertex][iVar]; g is what the unwritten
\* z buffer holds in 2-D
BC_Send_Receive_Pack_Buffers(nd, vtx, SendRecv, dim, g) ==
    [t \in Tags |->
        [i \in 0 .. (nBuffer_Vector(SendRecv) - 1) |->
            LET iVertex == i \div nVar
                iVar    == i % nVar
                iPoint  == vtx[iVertex]
            IN  CASE t = 0 -> nd[iPoint].Solution[iVar]
                  [] t = 1 -> nd[iPoint].Gradient[iVar][0]
                  [] t = 2 -> nd[iPoint].Gradient[iVar][1]
                  [] OTHER -> IF dim = 3 THEN nd[iPoint].Gradient[iVar][2] ELSE g]]

\* the writes of one (iVertex, iVar) pass of the unpacking loop
BC_Send_Receive_Unpack_Set_WritesZ(nd, iPoint, iVar, buf, i, dim) ==
    SetGradient(SetGradient(SetGradient(SetSolution(nd, iPoint, iVar, buf[0][i]),
        iPoint, iVar, 0, buf[1][i]), iPoint, iVar, 1, buf[2][i]), iPoint, iVar, 2, buf[3][i])
BC_Send_Receive_Unpack_Set(nd, iPoint, iVar, buf, i, dim) ==
    LET n0 == SetSolution(nd, iPoint, iVar, buf[0][i])
        n1 == SetGradient(n0, iPoint, iVar, 0, buf[1][i])
        n2 == SetGradient(n1, iPoint, iVar, 1, buf[2][i])
    IN  IF dim = 3 THEN SetGradient(n2, iPoint, iVar, 2, buf[3][i]) ELSE n2

\* the unpacking loop over iVertex and iVar, i = iVertex*nVar + iVar
RECURSIVE BC_Send_Receive_Unpack_Loop(_, _, _, _, _, _)
BC_Send_Receive_Unpack_Loop(nd, vtx, SendRecv, buf, dim, i) ==
    IF i = nBuffer_Vector(SendRecv) THEN nd
    ELSE BC_Send_Receive_Unpack_Loop(
             BC_Send_Receive_Unpack_Set(nd, vtx[i \div nVar],
                                        i % nVar, buf, i, dim),
             vtx, SendRecv, buf, dim, i + 1)

(***************************************************************************)
(* MPI point-to-point transport.  A message is matched by source,          *)
(* destination and tag; messages of one source and tag are received in the *)
(* order they were posted.  Bsend copies the message and returns; Ssend    *)
(* returns only once the destination is blocked in the matching Recv.      *)
(***************************************************************************)
MPI_Match(src, dst, tag) ==
    {i \in 1 .. Len(net) : net[i].src = src /\ net[i].dst = dst /\ net[i].tag = tag}
MPI_First(S) == CHOOSE i \in S : \A j \in S : i <= j
MPI_Remove(q, i) == SubSeq(q, 1, i - 1) \o SubSeq(q, i + 1, Len(q))
\* the tag of the Recv a domain inside a receive marker is at
RecvTag(d) == IF d.stage = "entry" THEN 0 ELSE d.tag
MPI_Posted(dst, src, tag) ==
    /\ dst \in Ranks
    /\ LET d == dom[dst]
       IN  /\ d.iMarker < nMarker
           /\ d.SendRecv[d.iMarker] < 0
           /\ d.stage \in {"entry", "mpi"}
           /\ receive_from(d.SendRecv[d.iMarker]) = src
           /\ RecvTag(d) = tag
MPI_SendReturns(call, src, dst, tag) == call = "Bsend" \/ MPI_Posted(dst, src, tag)

\* no buffers exist outside a call; the call returns to the driver's loop
NoBuffers == [t \in Tags |-> <<>>]
Return(d) == [d EXCEPT !.iMarker = @ + 1, !.stage = "entry", !.tag = 0, !.buf = NoBuffers]

\* BC_Send_Receive on a marker that is neither sent nor received
BC_Send_Receive_None(r) ==
    /\ LET d == dom[r]
       IN  /\ d.iMarker < nMarker
           /\ d.stage = "entry"
           /\ d.SendRecv[d.iMarker] = 0
           /\ dom' = [dom EXCEPT ![r] = Return(d)]
    /\ UNCHANGED <<net, mpilog, nDim, solverVars, geomVars, asmVars, ctorVars>>

\* send marker: the buffers are declared and the packing loop runs
BC_Send_Receive_Pack(r) ==
    /\ LET d == dom[r]
           m == d.iMarker
       IN  /\ m < nMarker
           /\ d.stage = "entry"
           /\ d.SendRecv[m] > 0
           /\ \E g \in Garbage :
                dom' = [dom EXCEPT ![r] =
                          [d EXCEPT !.stage = "mpi", !.tag = 0,
                                    !.buf = BC_Send_Receive_Pack_Buffers(
                                                d.node, d.vertex[m], d.SendRecv[m], nDim, g)]]
           /\ mpilog' = [mpilog EXCEPT ![r].packed[m] =
                           [iVertex \in DOMAIN d.vertex[m] |->
                               d.node[d.vertex[m][iVertex]]]]
    /\ UNCHANGED <<net, nDim, solverVars, geomVars, asmVars, ctorVars>>

\* send marker: one send call, tags 0, 1, 2 and in 3-D 3
BC_Send_Receive_Bsend(r) ==
    /\ LET d == dom[r]
           m == d.iMarker
           SendRecv == d.SendRecv[m]
       IN  /\ m < nMarker
           /\ d.stage = "mpi"
           /\ SendRecv > 0
           /\ MPI_SendReturns(BC_Send_Receive_SendCall, r, send_to(SendRecv), d.tag)
           /\ net' = Append(net, [src |-> r, dst |-> send_to(SendRecv),
                                  tag |-> d.tag, data |-> d.buf[d.tag]])
           /\ mpilog' = [mpilog EXCEPT ![r].calls[m] =
                           Append(@, [call |-> BC_Send_Receive_SendCall,
                                      peer |-> send_to(SendRecv), tag |-> d.tag,
                                      count |-> nBuffer_Vector(SendRecv)])]
           /\ dom' = [dom EXCEPT ![r] =
                        IF d.tag < LastTag(nDim) THEN [d EXCEPT !.tag = @ + 1]
                        ELSE Return(d)]
    /\ UNCHANGED <<nDim, solverVars, geomVars, asmVars, ctorVars>>

\* receive marker: one blocking Recv, tags 0, 1, 2 and in 3-D 3; the first
\* one follows the declaration of the buffers
BC_Send_Receive_Recv(r) ==
    /\ LET d == dom[r]
           m == d.iMarker
           SendRecv == d.SendRecv[m]
           t == RecvTag(d)
           S == MPI_Match(receive_from(SendRecv), r, t)
       IN  /\ m < nMarker
           /\ d.stage \in {"entry", "mpi"}
           /\ SendRecv < 0
           /\ S # {}
           /\ \E g \in (IF d.stage = "entry" THEN Garbage ELSE {0}) :
                LET declared == IF d.stage = "entry"
                                THEN [tt \in Tags |->
                                        [i \in 0 .. (nBuffer_Vector(SendRecv) - 1) |-> g]]
                                ELSE d.buf
                    received == [declared EXCEPT ![t] = net[MPI_First(S)].data]
                IN  dom' = [dom EXCEPT ![r] =
                              IF t < LastTag(nDim)
                              THEN [d EXCEPT !.stage = "mpi", !.tag = t + 1, !.buf = received]
                              ELSE [d EXCEPT !.stage = "unpack", !.tag = 0, !.buf = received]]
           /\ net' = MPI_Remove(net, MPI_First(S))
           /\ mpilog' = [mpilog EXCEPT ![r].calls[m] =
                           Append(@, [call |-> "Recv", peer |-> receive_from(SendRecv),
                                      tag |-> t, count |-> nBuffer_Vector(SendRecv)])]
    /\ UNCHANGED <<nDim, solverVars, geomVars, asmVars, ctorVars>>

\* receive marker: the unpacking loop, then the call returns
BC_Send_Receive_Unpack(r) ==
    /\ LET d == dom[r]
           m == d.iMarker
       IN  /\ m < nMarker
           /\ d.stage = "unpack"
           /\ dom' = [dom EXCEPT ![r] =
                        Return([d EXCEPT !.node = BC_Send_Receive_Unpack_Loop(
                                            d.node, d.vertex[m], d.SendRecv[m], d.buf, nDim, 0)])]
    /\ UNCHANGED <<net, mpilog, nDim, solverVars, geomVars, asmVars, ctorVars>>

\* After its last marker the domain goes on with its time step: the implicit
\* update changes the solution of the points it owns.
Halo_AddSolution(r) ==
    /\ LET d == dom[r]
       IN  /\ d.iMarker = nMarker
           /\ ~d.updated
           /\ dom' = [dom EXCEPT ![r] =
                        [d EXCEPT !.updated = TRUE,
                                  !.node = [iPoint \in HaloPoints |->
                                              IF iPoint \in HaloDomain
                                              THEN [d.node[iPoint] EXCEPT !.Solution =
                                                      [iVar \in Vars |-> @[iVar] + 1]]
                                              ELSE d.node[iPoint]]]]
    /\ UNCHANGED <<net, mpilog, nDim, solverVars, geomVars, asmVars, ctorVars>>

HaloStep(r) ==
    \/ BC_Send_Receive_None(r)
    \/ BC_Send_Receive_Pack(r)
    \/ BC_Send_Receive_Bsend(r)
    \/ BC_Send_Receive_Recv(r)
    \/ BC_Send_Receive_Unpack(r)
    \/ Halo_AddSolution(r)

\* Both domains constructed (no restart) and about to start the marker loop,
\* the kinds of their markers being one of the choices.
HaloStart(choices) ==
    /\ model \in {"SA", "SST"}
    /\ kernel = 1
    /\ nDim \in {2, 3}
    /\ node = Preprocessing_node(
                IF model = "SA" THEN CTurbSASolution(nDim, FALSE)
                ELSE CTurbSSTSolution(nDim, FALSE), 0)
    /\ Jacobian = [rc \in Pattern |-> [vw \in (0 .. (nVarOf(model) - 1)) \X (0 .. (nVarOf(model) - 1)) |-> 0]]
    /\ rhs = [i \in 0 .. (nPoint * nVarOf(model) - 1) |-> 0]
    /\ xsol = [i \in 0 .. (nPoint * nVarOf(model) - 1) |-> 0]
    /\ Residual_Max = [v \in 0 .. (nVarOf(model) - 1) |-> 0]
    /\ Residual = [v \in 0 .. (nVarOf(model) - 1) |-> 0]
    /\ Solution = [v \in 0 .. (nVarOf(model) - 1) |-> 0]
    /\ Jacobian_i = [vw \in (0 .. (nVarOf(model) - 1)) \X (0 .. (nVarOf(model) - 1)) |-> 0]
    /\ Jacobian_j = [vw \in (0 .. (nVarOf(model) - 1)) \X (0 .. (nVarOf(model) - 1)) |-> 0]
    /\ pc = Idle
    /\ step = FirstLabel
    /\ nOps = 0
    /\ since = {}
    /\ \E layout \in choices :
         dom = [r \in Ranks |->
                  [SendRecv |-> Halo_SendRecv(r, layout[r]),
                   kind     |-> layout[r],
                   vertex   |-> Halo_vertices(r, layout[r]),
                   node     |-> Halo_node(r),
                   iMarker  |-> 0,
                   stage    |-> "entry",
                   tag      |-> 0,
                   buf      |-> NoBuffers,
                   updated  |-> FALSE]]
    /\ net = <<>>
    /\ mpilog = [r \in Ranks |-> [calls  |-> [m \in Markers |-> <<>>],
                                  packed |-> [m \in Markers |-> <<>>]]]
    /\ grid = <<>>
    /\ gpc = NoConstruction
    /\ Constructed(DefaultConfig(model), 0)
    /\ rfile = <<>>
    /\ proc = NoConstructor

\* each domain has one send marker and one receive marker
HaloInit == HaloStart([Ranks -> Layouts])

HaloNext ==
    \/ \E r \in Ranks : BC_Send_Receive_None(r)
    \/ \E r \in Ranks : BC_Send_Receive_Pack(r)
    \/ \E r \in Ranks : BC_Send_Receive_Bsend(r)
    \/ \E r \in Ranks : BC_Send_Receive_Recv(r)
    \/ \E r \in Ranks : BC_Send_Receive_Unpack(r)
    \/ \E r \in Ranks : Halo_AddSolution(r)

\* Every domain is a running process: it takes its next step when it can.
SpecHalo == HaloInit /\ [][HaloNext]_vars /\ \A r \in Ranks : WF_vars(HaloStep(r))

\* SpecPair: domain 1 owns two send markers towards domain 2, which owns the
\* two matching receive markers ("send" pairs with "recv", "send2" with
\* "recv2"); each domain visits its markers in any order.
PairSendLayouts == {<<"send", "send2", "none">>, <<"send2", "send", "none">>,
                    <<"send", "none", "send2">>, <<"none", "send2", "send">>}
PairRecvLayouts == {<<"recv", "recv2", "none">>, <<"recv2", "recv", "none">>,
                    <<"recv", "none", "recv2">>, <<"none", "recv2", "recv">>}
PairInit ==
    HaloStart({l \in [Ranks -> PairSendLayouts \cup PairRecvLayouts] :
                  l[1] \in PairSendLayouts /\ l[2] \in PairRecvLayouts})
SpecPair == PairInit /\ [][HaloNext]_vars /\ \A r \in Ranks : WF_vars(HaloStep(r))

(***************************************************************************)
(* Properties of the halo exchange (SpecHalo).                             *)
(***************************************************************************)
IsPrefix(a, b) == Len(a) <= Len(b) /\ a = SubSeq(b, 1, Len(a))
\* the MPI calls the convention asks of a marker with tag SendRecv
ConventionCalls(SendRecv) ==
    IF SendRecv = 0 THEN <<>>
    ELSE LET E(t) == [call  |-> IF SendRecv > 0 THEN "Bsend" ELSE "Recv",
                      peer  |-> IF SendRecv > 0 THEN SendRecv ELSE 0 - SendRecv,
                      tag   |-> t,
                      count |-> Halo_nVertex(SendRecv) * nVar]
         IN  <<E(0), E(1), E(2)>> \o (IF nDim = 3 THEN <<E(3)>> ELSE <<>>)
Returned(r, m) == m < dom[r].iMarker
AllReturned == \A r \in Ranks : dom[r].iMarker = nMarker

\* C8: the MPI calls BC_Send_Receive has made on a marker are an initial part
\* of, and once the call has returned are exactly: on a send marker (tag
\* s > 0) nDim+1 Bsend to rank s with tags 0, 1, 2 and, only in 3-D, 3, each
\* of nVertex*nVar values; on a receive marker (tag s < 0) Recv from rank |s|
\* of the same tags in the same order with the same lengths; none on a marker
\* with tag 0.  Every message in flight carries nVertex*nVar values.
C8_MessageConvention ==
    /\ \A r \in Ranks : \A m \in Markers :
          LET calls == mpilog[r].calls[m]
              conv  == ConventionCalls(dom[r].SendRecv[m])
          IN  /\ IsPrefix(calls, conv)
              /\ Returned(r, m) => calls = conv
              /\ Len(conv) = IF dom[r].SendRecv[m] = 0 THEN 0 ELSE nDim + 1
    /\ \A i \in 1 .. Len(net) :
          /\ DOMAIN net[i].data = 0 .. (nVertexHalo * nVar - 1)
          /\ net[i].tag \in 0 .. nDim
\* both domains have returned from all their markers in 3-D with two
\* variables: four sends and four receives each, none on the third marker
C8_Witness ==
    /\ AllReturned
    /\ nDim = 3
    /\ model = "SST"
    /\ \A r \in Ranks : \E ms, mr, mn \in Markers :
          /\ dom[r].SendRecv[ms] > 0 /\ Len(mpilog[r].calls[ms]) = 4
          /\ dom[r].SendRecv[mr] < 0 /\ Len(mpilog[r].calls[mr]) = 4
          /\ mpilog[r].calls[mr][4].count = 2 * nVertexHalo
          /\ dom[r].SendRecv[mn] = 0 /\ mpilog[r].calls[mn] = <<>>

\* each domain visits its send marker before its receive marker
SendFirst ==
    \A r \in Ranks : \E ms, mr \in Markers :
        dom[r].SendRecv[ms] > 0 /\ dom[r].SendRecv[mr] < 0 /\ ms < mr
\* C9: when each of the two domains visits its send marker towards the other
\* before its receive marker from the other, every call of BC_Send_Receive
\* eventually returns: both domains get through all their markers.
C9_MutualExchange == SendFirst ~> AllReturned
\* both domains visited the send marker first and have returned from all
\* calls, every message posted having been received
C9_Witness ==
    /\ SendFirst
    /\ AllReturned
    /\ net = <<>>
    /\ \A r \in Ranks : \E m \in Markers : Len(mpilog[r].calls[m]) = nDim + 1
                                             /\ mpilog[r].calls[m][1].call = "Recv"

\* the send marker of rank s that is paired with the receive marker of rank r
Halo_Paired(s, r) == CHOOSE m \in Markers : dom[s].SendRecv[m] = r
\* C10: while a domain is inside BC_Send_Receive on a receive marker, its
\* nodes change only in the step that returns, taken after nDim+1 receives;
\* at the return the solution and the gradient components 0..nDim-1 of the
\* point of every vertex index equal what the sender's point of the same
\* vertex index of the paired send marker held when the sender packed it, and
\* in 2-D the third gradient column of the point is as before.
C10_ReceiveUnpack ==
    [][\A r \in Ranks :
         LET d == dom[r]
             m == d.iMarker
         IN  (m < nMarker /\ d.SendRecv[m] < 0) =>
               LET s    == 0 - d.SendRecv[m]
                   sent == mpilog[s].packed[Halo_Paired(s, r)]
               IN  /\ dom'[r].node # d.node =>
                         /\ Len(mpilog[r].calls[m]) = nDim + 1
                         /\ dom'[r].iMarker = m + 1
                   /\ dom'[r].iMarker = m + 1 =>
                         \A v \in 0 .. (nVertexHalo - 1) : \A k \in Vars :
                            LET p == Halo_vertex(d.SendRecv[m])[v]
                            IN  /\ dom'[r].node[p].Solution[k] = sent[v].Solution[k]
                                /\ \A c \in 0 .. (nDim - 1) :
                                      dom'[r].node[p].Gradient[k][c] = sent[v].Gradient[k][c]
                                /\ nDim = 2 =>
                                      dom'[r].node[p].Gradient[k][2] = d.node[p].Gradient[k][2]
    ]_vars
\* in 2-D a domain has returned from its receive marker after the sender went
\* on to change its own solution: the receive points hold the packed values,
\* not the sender's present ones, and keep their third gradient column
C10_Witness ==
    /\ nDim = 2
    /\ model = "SST"
    /\ \E r \in Ranks : \E m \in Markers :
          /\ Returned(r, m)
          /\ dom[r].SendRecv[m] < 0
          /\ LET s    == 0 - dom[r].SendRecv[m]
                 ms   == Halo_Paired(s, r)
                 sent == mpilog[s].packed[ms]
             IN  /\ dom[s].updated
                 /\ \A v \in 0 .. (nVertexHalo - 1) :
                       LET p == Halo_vertex(dom[r].SendRecv[m])[v]
                           q == Halo_vertex(dom[s].SendRecv[ms])[v]
                       IN  /\ dom[r].node[p].Solution = sent[v].Solution
                           /\ dom[r].node[p].Solution # dom[s].node[q].Solution
                           /\ dom[r].node[p].Gradient[1][1] = sent[v].Gradient[1][1]
                           /\ dom[r].node[p].Gradient[1][2] = Halo_node(r)[p].Gradient[1][2]

(***************************************************************************)
(* SpecGeom: the dual (control-volume) geometry of a 2-D triangular mesh   *)
(* and its agglomerated coarse levels (CPhysicalGeometry,                  *)
(* CMultiGridGeometry).  Only the declarations are in                      *)
(* geometry_structure.hpp; the construction is modelled from the           *)
(* specification, sections 4.2 and 4.3.  Coordinates are integers and      *)
(* normals are scaled by 6, so midpoints and centroids stay integers.      *)
(***************************************************************************)
GridN     == 3      \* cells per side of the square grid
MaxLevel  == 2      \* coarse levels built on top of the fine one
AggTarget == 4      \* points of an aggregate below which indirect neighbours are taken

GridSide   == GridN + 1
GridPoints == 0 .. (GridSide * GridSide - 1)
Col(p) == p % GridSide
Row(p) == p \div GridSide
Pt(c, r) == r * GridSide + c
OnBoundary(p) == Col(p) \in {0, GridN} \/ Row(p) \in {0, GridN}
\* the interior points are shifted off the regular position
Shifts == {<<0, 0>>, <<1, 0>>, <<0, 1>>, <<-1, -1>>}
Coord(p, shift) ==
    IF OnBoundary(p) THEN <<2 * Col(p), 2 * Row(p)>>
    ELSE <<2 * Col(p) + shift[1], 2 * Row(p) + shift[2]>>

\* elements: every cell is cut into two counter-clockwise triangles
nElem == 2 * GridN * GridN
Elem == [k \in 1 .. nElem |->
           LET c == ((k - 1) \div 2) % GridN
               r == ((k - 1) \div 2) \div GridN
           IN  IF (k - 1) % 2 = 0
               THEN <<Pt(c, r), Pt(c + 1, r), Pt(c + 1, r + 1)>>
               ELSE <<Pt(c, r), Pt(c + 1, r + 1), Pt(c, r + 1)>>]
Sides(el) == {<<el[1], el[2]>>, <<el[2], el[3]>>, <<el[3], el[1]>>}
\* an edge runs from its lower to its higher point index
Ordered(pq) == IF pq[1] < pq[2] THEN pq ELSE <<pq[2], pq[1]>>
GridEdges == {Ordered(sd) : sd \in UNION {Sides(Elem[k]) : k \in 1 .. nElem}}

\* boundary elements (segments), counter-clockwise; side 0 bottom, 1 right,
\* 2 top, 3 left; a marker per side
nSeg == 4 * GridN
Seg == [k \in 1 .. nSeg |->
          LET side == (k - 1) \div GridN
              j    == (k - 1) % GridN
          IN  [side |-> side,
               pts  |-> CASE side = 0 -> <<Pt(j, 0), Pt(j + 1, 0)>>
                          [] side = 1 -> <<Pt(GridN, j), Pt(GridN, j + 1)>>
                          [] side = 2 -> <<Pt(GridN - j, GridN), Pt(GridN - j - 1, GridN)>>
                          [] OTHER    -> <<Pt(0, GridN - j), Pt(0, GridN - j - 1)>>]]
MarkerSchemes == {<<1, 1, 1, 1>>, <<1, 2, 2, 2>>, <<1, 2, 1, 2>>, <<1, 2, 3, 4>>}
SegMarker(k, scheme) == scheme[Seg[k].side + 1]
PointMarkers(p, scheme) ==
    {SegMarker(k, scheme) : k \in {kk \in 1 .. nSeg : p \in {Seg[kk].pts[1], Seg[kk].pts[2]}}}

V2Add(a, b) == <<a[1] + b[1], a[2] + b[2]>>
V2Sub(a, b) == <<a[1] - b[1], a[2] - b[2]>>
V2Scale(k, a) == <<k * a[1], k * a[2]>>
V2Dot(a, b) == a[1] * b[1] + a[2] * b[2]
V2Rot(a) == <<a[2], 0 - a[1]>>
RECURSIVE V2Sum(_, _)
V2Sum(S, f) == IF S = {} THEN <<0, 0>>
               ELSE LET x == CHOOSE y \in S : TRUE
                    IN  V2Add(f[x], V2Sum(S \ {x}, f))

\* orientation of a face normal: from the first to the second point of the edge
Face_Orient_AsComputed(n, from, to) == n
Face_Orient(n, from, to) == IF V2Dot(n, V2Sub(to, from)) >= 0 THEN n ELSE V2Scale(-1, n)
\* the dual face of element el across its side pq (lower point first): from
\* the midpoint of the side to the centroid of the element
FaceNormal(el, pq, shift) ==
    LET M6 == V2Scale(3, V2Add(Coord(pq[1], shift), Coord(pq[2], shift)))
        G6 == V2Scale(2, V2Add(V2Add(Coord(el[1], shift), Coord(el[2], shift)),
                               Coord(el[3], shift)))
    IN  Face_Orient(V2Rot(V2Sub(G6, M6)), Coord(pq[1], shift), Coord(pq[2], shift))
\* the outward normal of half a boundary segment
HalfSegNormal(sg, shift) ==
    V2Rot(V2Scale(3, V2Sub(Coord(sg[2], shift), Coord(sg[1], shift))))

\* a level before any normal is accumulated
EmptyLevel(n, E, mk) ==
    [nPoint  |-> n,
     Edges   |-> E,
     Normal  |-> [e \in E |-> <<0, 0>>],
     Markers |-> mk,
     Vertex  |-> [mp \in {<<m, q>> \in (UNION {mk[q2] : q2 \in 0 .. (n - 1)}) \X (0 .. (n - 1)) :
                            m \in mk[q]} |-> <<0, 0>>]]

\* SetControlVolume, one element: its three dual faces are added to the edges
SetControlVolume_Elem(lvl, k, shift) ==
    [lvl EXCEPT !.Normal =
        [e \in DOMAIN @ |->
            IF \E sd \in Sides(Elem[k]) : Ordered(sd) = e
            THEN V2Add(@[e], FaceNormal(Elem[k], e, shift)) ELSE @[e]]]
\* SetBoundControlVolume, one boundary element: half its normal to each end
SetBoundControlVolume_Seg(lvl, k, shift, scheme) ==
    [lvl EXCEPT !.Vertex =
        [mp \in DOMAIN @ |->
            IF mp[1] = SegMarker(k, scheme) /\ mp[2] \in {Seg[k].pts[1], Seg[k].pts[2]}
            THEN V2Add(@[mp], HalfSegNormal(Seg[k].pts, shift)) ELSE @[mp]]]

\* closure of the control volume of point p of a level
Level_Closure(lvl, p) ==
    LET I == {e \in lvl.Edges : p \in {e[1], e[2]}}
        B == {mp \in DOMAIN lvl.Vertex : mp[2] = p}
    IN  V2Add(V2Sum(I, [e \in I |-> IF e[1] = p THEN lvl.Normal[e]
                                     ELSE V2Scale(-1, lvl.Normal[e])]),
              V2Sum(B, [mp \in B |-> lvl.Vertex[mp]]))

(***************************************************************************)
(* Agglomeration (CMultiGridGeometry constructor) and the coarse levels.   *)
(***************************************************************************)
LevelPoints(lvl) == 0 .. (lvl.nPoint - 1)
Neighbors(lvl, p) == {q \in LevelPoints(lvl) : <<p, q>> \in lvl.Edges \/ <<q, p>> \in lvl.Edges}
Agglomerated(aggs) == UNION {aggs[k].children : k \in 1 .. Len(aggs)}

\* a candidate may join an aggregate if it has no marker or exactly the
\* marker of the seed
SetBoundAgglomeration_AnyMarker(CVPoint, marker_seed, fine_grid) == TRUE
SetBoundAgglomeration(CVPoint, marker_seed, fine_grid) ==
    fine_grid.Markers[CVPoint] = {} \/ fine_grid.Markers[CVPoint] = marker_seed

\* the next seed: the unagglomerated point of lowest index
NextSeed(lvl, aggs) ==
    CHOOSE p \in LevelPoints(lvl) \ Agglomerated(aggs) :
        \A q \in LevelPoints(lvl) \ Agglomerated(aggs) : p <= q
\* the seed and its direct neighbours that are free and compatible
DirectChildren_KeepsTaken(lvl, aggs, iPoint) ==
    {iPoint} \cup {q \in Neighbors(lvl, iPoint) :
                     SetBoundAgglomeration(q, lvl.Markers[iPoint], lvl)}
DirectChildren(lvl, aggs, iPoint) ==
    {iPoint} \cup {q \in Neighbors(lvl, iPoint) :
                     /\ q \notin Agglomerated(aggs)
                     /\ SetBoundAgglomeration(q, lvl.Markers[iPoint], lvl)}
\* indirect neighbours that touch at least two points of the aggregate
SetSuitableNeighbors(lvl, aggs, children) ==
    {q \in LevelPoints(lvl) \ (Agglomerated(aggs) \cup children) :
        Cardinality(Neighbors(lvl, q) \cap children) >= 2}
IndirectChildren(lvl, aggs, agg) ==
    IF Cardinality(agg.children) >= AggTarget THEN {}
    ELSE {q \in SetSuitableNeighbors(lvl, SubSeq(aggs, 1, Len(aggs) - 1), agg.children) :
            SetBoundAgglomeration(q, lvl.Markers[agg.seed], lvl)}

\* the aggregate (0-based coarse index) a fine point belongs to
Parent(aggs, p) == (CHOOSE k \in 1 .. Len(aggs) : p \in aggs[k].children) - 1
\* coarse edges and their normals: the fine normals between two aggregates,
\* each turned to point from the lower to the higher coarse index
MG_EdgeSign(I, e, aggs) == IF Parent(aggs, e[1]) = I THEN 1 ELSE -1
MG_SetControlVolume(fine, aggs) ==
    LET n  == Len(aggs)
        Between(I, J) == {e \in fine.Edges :
                            {Parent(aggs, e[1]), Parent(aggs, e[2])} = {I, J}}
        E  == {IJ \in (0 .. (n - 1)) \X (0 .. (n - 1)) :
                  IJ[1] < IJ[2] /\ Between(IJ[1], IJ[2]) # {}}
        mk == [k \in 0 .. (n - 1) |-> fine.Markers[aggs[k + 1].seed]]
    IN  [EmptyLevel(n, E, mk) EXCEPT
            !.Normal = [IJ \in E |->
                          V2Sum(Between(IJ[1], IJ[2]),
                                [e \in Between(IJ[1], IJ[2]) |->
                                    V2Scale(MG_EdgeSign(IJ[1], e, aggs), fine.Normal[e])])]]
\* coarse boundary vertices: the fine vertex normals of the children, per marker
MG_SetBoundControlVolume(coarse, fine, aggs) ==
    [coarse EXCEPT !.Vertex =
        [mp \in DOMAIN @ |->
            LET C == {c \in aggs[mp[2] + 1].children : <<mp[1], c>> \in DOMAIN fine.Vertex}
            IN  V2Sum(C, [c \in C |-> fine.Vertex[<<mp[1], c>>]])]]

\* SetControlVolume: the loop over the elements, one element per step
SetControlVolume ==
    /\ gpc.op = "SetControlVolume"
    /\ gpc' = [gpc EXCEPT !.lvl = SetControlVolume_Elem(@, gpc.i, gpc.shift),
                          !.i   = IF gpc.i < nElem THEN @ + 1 ELSE 1,
                          !.op  = IF gpc.i < nElem THEN @ ELSE "SetBoundControlVolume"]
    /\ UNCHANGED <<grid, solverVars, nDim, haloVars, asmVars, ctorVars>>

\* SetBoundControlVolume: the loop over the boundary elements; after the last
\* one the fine level is complete
SetBoundControlVolume ==
    /\ gpc.op = "SetBoundControlVolume"
    /\ LET lvl == SetBoundControlVolume_Seg(gpc.lvl, gpc.i, gpc.shift, gpc.scheme)
       IN  IF gpc.i < nSeg
           THEN /\ gpc' = [gpc EXCEPT !.lvl = lvl, !.i = @ + 1]
                /\ UNCHANGED grid
           ELSE /\ grid' = Append(grid, [geom |-> lvl, aggs |-> <<>>])
                /\ gpc' = [gpc EXCEPT !.lvl = lvl, !.i = 0, !.aggs = <<>>,
                                      !.op = IF MaxLevel > 0 THEN "Agglomerate" ELSE "done"]
    /\ UNCHANGED <<solverVars, nDim, haloVars, asmVars, ctorVars>>

\* agglomeration: the next seed takes its direct neighbours
Agglomerate_Seed ==
    /\ gpc.op = "Agglomerate"
    /\ LET fine == grid[Len(grid)].geom
       IN  /\ LevelPoints(fine) \ Agglomerated(gpc.aggs) # {}
           /\ LET iPoint == NextSeed(fine, gpc.aggs)
              IN  gpc' = [gpc EXCEPT
                            !.aggs = Append(@, [seed |-> iPoint,
                                                children |-> DirectChildren(fine, gpc.aggs, iPoint)]),
                            !.op = "Indirect"]
    /\ UNCHANGED <<grid, solverVars, nDim, haloVars, asmVars, ctorVars>>

\* agglomeration: a small aggregate takes its suitable indirect neighbours
Agglomerate_Indirect ==
    /\ gpc.op = "Indirect"
    /\ LET fine == grid[Len(grid)].geom
           last == Len(gpc.aggs)
       IN  gpc' = [gpc EXCEPT
                     !.aggs[last].children =
                         @ \cup IndirectChildren(fine, gpc.aggs, gpc.aggs[last]),
                     !.op = "Agglomerate"]
    /\ UNCHANGED <<grid, solverVars, nDim, haloVars, asmVars, ctorVars>>

\* every fine point is agglomerated: edges and normals of the coarse level
Coarse_SetControlVolume ==
    /\ gpc.op = "Agglomerate"
    /\ LET fine == grid[Len(grid)].geom
       IN  /\ LevelPoints(fine) \ Agglomerated(gpc.aggs) = {}
           /\ gpc' = [gpc EXCEPT !.lvl = MG_SetControlVolume(fine, gpc.aggs),
                                 !.op = "MG_SetBoundControlVolume"]
    /\ UNCHANGED <<grid, solverVars, nDim, haloVars, asmVars, ctorVars>>

\* boundary vertices of the coarse level; the level is complete
Coarse_SetBoundControlVolume ==
    /\ gpc.op = "MG_SetBoundControlVolume"
    /\ LET fine == grid[Len(grid)].geom
           lvl  == MG_SetBoundControlVolume(gpc.lvl, fine, gpc.aggs)
       IN  /\ grid' = Append(grid, [geom |-> lvl, aggs |-> gpc.aggs])
           /\ gpc' = [gpc EXCEPT !.lvl = lvl, !.aggs = <<>>,
                                 !.op = IF Len(grid) < MaxLevel THEN "Agglomerate" ELSE "done"]
    /\ UNCHANGED <<solverVars, nDim, haloVars, asmVars, ctorVars>>

\* The topology is read and the edges exist; the normals are still zero.
GeomInit ==
    /\ model = "SA"
    /\ kernel = 1
    /\ nDim = 2
    /\ node = Preprocessing_node(CTurbSASolution(nDim, FALSE), 0)
    /\ Jacobian = [rc \in Pattern |-> [vw \in {<<0, 0>>} |-> 0]]
    /\ rhs = [i \in 0 .. (nPoint - 1) |-> 0]
    /\ xsol = [i \in 0 .. (nPoint - 1) |-> 0]
    /\ Residual_Max = [v \in {0} |-> 0]
    /\ Residual = [v \in {0} |-> 0]
    /\ Solution = [v \in {0} |-> 0]
    /\ Jacobian_i = [vw \in {<<0, 0>>} |-> 0]
    /\ Jacobian_j = [vw \in {<<0, 0>>} |-> 0]
    /\ pc = Idle
    /\ step = FirstLabel
    /\ nOps = 0
    /\ since = {}
    /\ dom = <<>>
    /\ net = <<>>
    /\ mpilog = <<>>
    /\ grid = <<>>
    /\ Constructed(DefaultConfig(model), 0)
    /\ rfile = <<>>
    /\ proc = NoConstructor
    /\ \E shift \in Shifts : \E scheme \in MarkerSchemes :
         gpc = [op |-> "SetControlVolume", i |-> 1, shift |-> shift, scheme |-> scheme,
                aggs |-> <<>>,
                lvl |-> EmptyLevel(GridSide * GridSide, GridEdges,
                                   [p \in GridPoints |-> PointMarkers(p, scheme)])]

GeomNext ==
    \/ SetControlVolume
    \/ SetBoundControlVolume
    \/ Agglomerate_Seed
    \/ Agglomerate_Indirect
    \/ Coarse_SetControlVolume
    \/ Coarse_SetBoundControlVolume

\* The construction is a sequential program: it goes on until it is done.
SpecGeom == GeomInit /\ [][GeomNext]_vars /\ WF_vars(GeomNext)

(***************************************************************************)
(* Properties of the geometry (SpecGeom).                                  *)
(***************************************************************************)
\* C11: at every level that has been built, the fine one and every
\* agglomerated one, the normals of the edges at a point, taken positive at
\* the first and negative at the second point of the edge, plus the boundary
\* vertex normals of the point sum to the zero vector, for every point.
C11_ClosedControlVolumes ==
    \A l \in 1 .. Len(grid) : \A p \in LevelPoints(grid[l].geom) :
        Level_Closure(grid[l].geom, p) = <<0, 0>>
\* all levels are built from a mesh with a shifted interior point; the last
\* level has an edge and a boundary vertex with non-zero normals
C11_Witness ==
    /\ gpc.op = "done"
    /\ Len(grid) = MaxLevel + 1
    /\ gpc.shift = <<1, 0>>
    /\ gpc.scheme = <<1, 2, 1, 2>>
    /\ \E e \in grid[Len(grid)].geom.Edges : grid[Len(grid)].geom.Normal[e] # <<0, 0>>
    /\ \E mp \in DOMAIN grid[Len(grid)].geom.Vertex :
          grid[Len(grid)].geom.Vertex[mp] # <<0, 0>>
    /\ \E e \in grid[1].geom.Edges :
          grid[1].geom.Normal[e][1] # 0 /\ grid[1].geom.Normal[e][2] # 0

\* the agglomerations made so far: finished ones and the one in progress
Agglomerations ==
    {[fine |-> grid[l - 1].geom, aggs |-> grid[l].aggs] : l \in 2 .. Len(grid)}
      \cup (IF gpc.op \in {"Agglomerate", "Indirect", "MG_SetBoundControlVolume"}
            THEN {[fine |-> grid[Len(grid)].geom, aggs |-> gpc.aggs]} ELSE {})
\* C12: in every agglomeration, finished or in progress, two points of one
\* aggregate that both lie on a boundary have the same marker, and every
\* point admitted to an aggregate has no marker or the marker of the seed.
C12_MarkerPreservation ==
    \A a \in Agglomerations : \A k \in 1 .. Len(a.aggs) :
        /\ \A p, q \in a.aggs[k].children :
              (a.fine.Markers[p] # {} /\ a.fine.Markers[q] # {})
                  => a.fine.Markers[p] = a.fine.Markers[q]
        /\ \A p \in a.aggs[k].children \ {a.aggs[k].seed} :
              \/ a.fine.Markers[p] = {}
              \/ a.fine.Markers[p] = a.fine.Markers[a.aggs[k].seed]
\* an aggregate has grown along its marker and into the interior while a
\* neighbour of its seed on another marker was free and stayed out
C12_Witness ==
    /\ gpc.op = "Indirect"
    /\ Len(grid) = 1
    /\ LET fine == grid[1].geom
           agg  == gpc.aggs[Len(gpc.aggs)]
       IN  /\ \E p, q \in agg.children :
                 p # q /\ fine.Markers[p] # {} /\ fine.Markers[q] = {}
           /\ \E q \in Neighbors(fine, agg.seed) \ Agglomerated(gpc.aggs) :
                 fine.Markers[q] # {} /\ fine.Markers[q] # fine.Markers[agg.seed]

IsPartition(aggs, fine) ==
    /\ \A p \in LevelPoints(fine) :
          Cardinality({k \in 1 .. Len(aggs) : p \in aggs[k].children}) = 1
    /\ \A k \in 1 .. Len(aggs) :
          aggs[k].children # {} /\ aggs[k].children \subseteq LevelPoints(fine)
\* C13: the agglomeration of every level comes to its end, and the aggregates
\* a coarse level is built from are a partition of the points of the level
\* below: every point in exactly one aggregate, no aggregate empty.
C13_AgglomerationPartition ==
    /\ <>(gpc.op = "done")
    /\ [](\A l \in 2 .. Len(grid) : IsPartition(grid[l].aggs, grid[l - 1].geom))
\* all levels are built; the first coarse level has fewer points than the
\* fine one and an aggregate of several points
C13_Witness ==
    /\ gpc.op = "done"
    /\ Len(grid) = MaxLevel + 1
    /\ grid[2].geom.nPoint < grid[1].geom.nPoint
    /\ grid[2].geom.nPoint > 1
    /\ \E k \in 1 .. Len(grid[2].aggs) : Cardinality(grid[2].aggs[k].children) > 2

(***************************************************************************)
(* SpecCtor: the constructors CTurbSASolution and CTurbSSTSolution, one    *)
(* step per statement that opens, reads, waits or exits.  The restart file *)
(* is the one the output routine writes: per point one line with the point *)
(* index, the nDim+2 flow columns and the model's solution components.     *)
(***************************************************************************)
StoredValues == {1, 2}      \* values a solution component has in the file
\* no restart file that can be opened
Missing == [exists |-> FALSE, lines |-> <<>>]

\* the line of point iPoint for the state u (components u[1] .. u[nVar])
RestartLine(dim, iPoint, u) == <<iPoint>> \o [c \in 1 .. (dim + 2) |-> 0] \o u
\* one line per point, in point order
RestartFiles(mdl, dim) ==
    {[exists |-> TRUE, lines |-> [n \in 1 .. nPoint |-> RestartLine(dim, n - 1, st[n])]] :
        st \in [1 .. nPoint -> [1 .. nVarOf(mdl) -> StoredValues]]}
\* component iVar of the state stored in the final columns of a line
FinalColumn(mdl, text_line, iVar) == text_line[Len(text_line) - nVarOf(mdl) + iVar + 1]

Report == <<"There is no turbulent restart file!!", "Press any key to exit...">>
\* the process after restart_file.fail(): the two messages, then cin.get()
\* slip: the process exits without waiting
Restart_Fail_NoWait(pr) ==
    [pr EXCEPT !.console = pr.console \o Report, !.failed = TRUE, !.pc = "exit"]
Restart_Fail(pr) ==
    [pr EXCEPT !.console = pr.console \o Report, !.failed = TRUE, !.pc = "cin.get"]

\* if (!restart): every node from the free-stream values
Ctor_Fresh ==
    /\ proc.pc = "start"
    /\ ~proc.restart
    /\ node' = [iPoint \in Points |->
                  IF model = "SA" THEN CTurbSASolution_Fresh_Node(config.Kind_Turb_Model)
                  ELSE CTurbSSTSolution_Fresh_Node]
    /\ proc' = [proc EXCEPT !.pc = "done"]
    /\ UNCHANGED <<model, kernel, Jacobian, rhs, xsol, Residual_Max, Residual, Jacobian_i,
                   Jacobian_j, Solution, pc, step, nOps, since, nDim, haloVars, geomVars,
                   asmVars, rfile>>

\* restart_file.open(cstr, ios::in) and the test of restart_file.fail()
Ctor_Open ==
    /\ proc.pc = "start"
    /\ proc.restart
    /\ proc' = IF ~rfile.exists
               THEN Restart_Fail([proc EXCEPT !.opens = @ + 1])
               ELSE [proc EXCEPT !.opens = @ + 1, !.pc = "getline"]
    /\ UNCHANGED <<solverVars, nDim, haloVars, geomVars, asmVars, rfile>>

\* cin.get() returns once a character or the end of the input is there
Ctor_cin_get ==
    /\ proc.pc = "cin.get"
    /\ proc.stdin \in {"char", "eof"}
    /\ proc' = [proc EXCEPT !.pc = "exit", !.got = @ + 1,
                            !.stdin = IF @ = "char" THEN "open" ELSE @]
    /\ UNCHANGED <<solverVars, nDim, haloVars, geomVars, asmVars, rfile>>

\* exit(1)
Ctor_exit ==
    /\ proc.pc = "exit"
    /\ proc' = [proc EXCEPT !.pc = "exited", !.status = 1]
    /\ UNCHANGED <<solverVars, nDim, haloVars, geomVars, asmVars, rfile>>

\* one pass of the loop over the points: getline, read the line, new node
Ctor_ReadLine ==
    /\ proc.pc = "getline"
    /\ LET iPoint    == proc.iPoint
           text_line == rfile.lines[iPoint + 1]
           nd        == IF model = "SA" THEN CTurbSASolution_Restart_Node(nDim, text_line)
                        ELSE CTurbSSTSolution_Restart_Node(nDim, text_line)
       IN  /\ Solution' = [Solution EXCEPT ![0] = ReadLine(nDim, text_line)]
           /\ node' = [p \in (DOMAIN node) \cup {iPoint} |->
                         IF p = iPoint THEN nd ELSE node[p]]
           /\ proc' = [proc EXCEPT !.iPoint = iPoint + 1,
                                   !.pc = IF iPoint + 1 < nPoint THEN "getline" ELSE "done"]
    /\ UNCHANGED <<model, kernel, Jacobian, rhs, xsol, Residual_Max, Residual, Jacobian_i,
                   Jacobian_j, pc, step, nOps, since, nDim, haloVars, geomVars,
                   asmVars, rfile>>

\* the user presses a key
KeyPress ==
    /\ proc.pc \in {"start", "cin.get"}
    /\ proc.stdin = "open"
    /\ proc' = [proc EXCEPT !.stdin = "char"]
    /\ UNCHANGED <<solverVars, nDim, haloVars, geomVars, asmVars, rfile>>

CtorInit ==
    /\ model \in {"SA", "SST"}
    /\ kernel = 1
    /\ nDim \in {2, 3}
    /\ node = <<>>
    /\ Jacobian = [rc \in Pattern |-> [vw \in (0 .. (nVarOf(model) - 1)) \X (0 .. (nVarOf(model) - 1)) |-> 0]]
    /\ \E g \in Garbage :
         /\ rhs = [i \in 0 .. (nPoint * nVarOf(model) - 1) |-> g]
         /\ xsol = [i \in 0 .. (nPoint * nVarOf(model) - 1) |-> g]
         /\ Residual_Max = [v \in 0 .. (nVarOf(model) - 1) |-> g]
         /\ Residual = [v \in 0 .. (nVarOf(model) - 1) |-> g]
         /\ Solution = [v \in 0 .. (nVarOf(model) - 1) |-> g]
         /\ Jacobian_i = [vw \in (0 .. (nVarOf(model) - 1)) \X (0 .. (nVarOf(model) - 1)) |-> g]
         /\ Jacobian_j = [vw \in (0 .. (nVarOf(model) - 1)) \X (0 .. (nVarOf(model) - 1)) |-> g]
         /\ Solution_i = [v \in 0 .. (nVarOf(model) - 1) |-> g]
         /\ Solution_j = [v \in 0 .. (nVarOf(model) - 1) |-> g]
         /\ Solution_j_end = g
    /\ \E cfg \in Configs(model) :
         /\ cfg.Kind_Upwind_Turb = "SCALAR_UPWIND_1ST"
         /\ cfg.Marker_Boundary = "NS_WALL"
         /\ config = cfg
    /\ Gradient = <<>>
    /\ Limiter = <<>>
    /\ flow = FlowSolver
    /\ TurbVar = <<>>
    /\ access = {}
    /\ pc = Idle
    /\ step = FirstLabel
    /\ nOps = 0
    /\ since = {}
    /\ dom = <<>>
    /\ net = <<>>
    /\ mpilog = <<>>
    /\ grid = <<>>
    /\ gpc = NoConstruction
    /\ rfile \in RestartFiles(model, nDim) \cup {Missing}
    /\ \E restart \in BOOLEAN : \E stdin \in {"open", "char", "eof"} :
         proc = [pc |-> "start", restart |-> restart, iPoint |-> 0, opens |-> 0,
                 failed |-> FALSE, console |-> <<>>, stdin |-> stdin, got |-> 0,
                 status |-> 0]

\* the statements of the constructor
CtorStep ==
    \/ Ctor_Fresh
    \/ Ctor_Open
    \/ Ctor_cin_get
    \/ Ctor_exit
    \/ Ctor_ReadLine
CtorNext ==
    \/ CtorStep
    \/ KeyPress

\* The constructor is a sequential program: it takes its next statement when
\* it can.  Nothing obliges the user to press a key.
SpecCtor == CtorInit /\ [][CtorNext]_vars /\ WF_vars(CtorStep)

(***************************************************************************)
(* Properties of the constructors (SpecCtor).                              *)
(***************************************************************************)
\* C16: when the solver is constructed from a restart file with one line per
\* point, every node built so far holds, in every component, the state stored
\* in the final columns of the line of its point: line n goes to point n.
C16_RestartRoundTrip ==
    (proc.restart /\ rfile.exists) =>
        \A iPoint \in DOMAIN node : \A iVar \in Vars :
            node[iPoint].Solution[iVar] = FinalColumn(model, rfile.lines[iPoint + 1], iVar)

\* the restart file was asked for and could not be opened
FailedOpen == proc.failed
Exited == proc.pc = "exited"
Reported == Len(proc.console) >= 2 /\ SubSeq(proc.console, 1, 2) = Report

\* C17 as stated: when the restart file cannot be opened the constructor
\* reports the error, never waits for external input, never retries, builds
\* no node and ends the run with a non-zero exit status.
C17_Original ==
    FailedOpen =>
        /\ Reported
        /\ proc.pc # "cin.get"
        /\ proc.got = 0
        /\ proc.opens = 1
        /\ node = <<>>
        /\ Exited => proc.status # 0

\* C17: when the restart file cannot be opened the constructor reports the
\* error at once, opens the file only once and builds no node; it then waits
\* in cin.get() and ends the run with exit status 1 only after a character or
\* the end of the standard input has arrived, which it does whenever one is
\* there.
C17_MissingRestartFile ==
    /\ [](FailedOpen =>
            /\ Reported
            /\ proc.opens = 1
            /\ node = <<>>
            /\ proc.pc \in {"cin.get", "exit", "exited"}
            /\ proc.pc = "cin.get" => proc.got = 0 /\ proc.status = 0
            /\ proc.pc = "exit" => proc.got = 1 /\ proc.status = 0
            /\ Exited => proc.got = 1 /\ proc.status = 1)
    /\ (FailedOpen /\ proc.stdin \in {"char", "eof"}) ~> Exited
\* the run has ended with status 1 after a failed open and one cin.get()
C17_Witness ==
    /\ FailedOpen
    /\ Exited
    /\ proc.status = 1
    /\ proc.got = 1
    /\ node = <<>>

(***************************************************************************)
(* Properties of the assembly under every configuration (SpecAsm).         *)
(***************************************************************************)
\* the two points are the end points of a mesh edge
Adjacent(p, q) == \E iEdge \in DOMAIN edge : {p, q} = {edge[iEdge][1], edge[iEdge][2]}
AssemblyOps == {"Upwind_Residual", "Viscous_Residual", "SourcePieceWise_Residual",
                "BC_Far_Field", "BC_Inlet", "BC_Outlet", "BC_NS_Wall",
                "BC_InterProcessor", "ImplicitEuler_Build", "ImplicitEuler_Iteration"}

\* C14: every Jacobian block an assembly operation (Upwind_Residual,
\* Viscous_Residual, SourcePieceWise_Residual, BC_Far_Field, BC_Inlet,
\* BC_Outlet, BC_NS_Wall, BC_InterProcessor, ImplicitEuler_Iteration) reads or
\* writes has a row point and a column point that are the same point or the
\* two end points of a mesh edge.
C14_JacobianSparsity ==
    step.op \in AssemblyOps =>
        \A rc \in access : rc[1] = rc[2] \/ Adjacent(rc[1], rc[2])
\* the last edge of Upwind_Residual has addressed its four blocks, two of
\* them off the diagonal
C14_Witness ==
    /\ step.op = "Upwind_Residual"
    /\ step.arg = nEdge - 1
    /\ Cardinality(access) = 4
    /\ \E rc \in access : rc[1] # rc[2] /\ Adjacent(rc[1], rc[2])

InteriorBoundaryOps == {"Upwind_Residual", "Viscous_Residual", "SourcePieceWise_Residual",
                        "BC_NS_Wall", "BC_Far_Field", "BC_Inlet", "BC_Outlet",
                        "BC_InterProcessor"}
NodeSolution_Old(nd) == [p \in Points |-> nd[p].Solution_Old]

\* C15 as stated: every interior and boundary assembly operation leaves every
\* point's solution, old solution, gradient and limiter and the flow solver's
\* state as they were (the geometry is constant in the model).
C15_Original ==
    [][step'.op \in InteriorBoundaryOps =>
          /\ NodeSolution(node') = NodeSolution(node)
          /\ NodeSolution_Old(node') = NodeSolution_Old(node)
          /\ Gradient' = Gradient
          /\ Limiter' = Limiter
          /\ flow' = flow]_vars

\* C15: every interior and boundary assembly operation leaves every point's
\* solution and gradient and the flow solution as they were; the old solution
\* changes only in BC_NS_Wall, which sets it to zero at the vertices of the
\* wall marker; the flow solver's gradient changes only on entry to a
\* second-order Upwind_Residual and to Viscous_Residual of the SA_COMP model;
\* the limiter changes only on entry to a second-order Upwind_Residual with
\* the Venkatakrishnan limiter.
C15_AssemblyFrame ==
    [][step'.op \in InteriorBoundaryOps =>
          /\ NodeSolution(node') = NodeSolution(node)
          /\ Gradient' = Gradient
          /\ flow'.Solution = flow.Solution
          /\ \A p \in Points :
                node'[p].Solution_Old # node[p].Solution_Old =>
                    /\ step'.op = "BC_NS_Wall"
                    /\ p \in VertexPoints(step'.arg)
                    /\ node'[p].Solution_Old = ZeroVec
          /\ flow'.Gradient # flow.Gradient =>
                /\ pc.op = "idle"
                /\ \/ step'.op = "Upwind_Residual" /\ high_order_diss
                   \/ step'.op = "Viscous_Residual" /\ config.Kind_Turb_Model = "SA_COMP"
          /\ Limiter' # Limiter =>
                /\ pc.op = "idle"
                /\ step'.op = "Upwind_Residual"
                /\ high_order_diss
                /\ config.Kind_SlopeLimit_Turb = "VENKATAKRISHNAN"]_vars
\* a second-order Upwind_Residual with the limiter has run after BC_NS_Wall:
\* the old solution of the wall points is zero and differs from the solution,
\* the flow gradient and the limiter are no longer the constructed ones
C15_Witness ==
    /\ step.op = "Upwind_Residual"
    /\ step.prev[1] = "BC_NS_Wall"
    /\ \A p \in VertexPoints(0) :
          node[p].Solution_Old = ZeroVec /\ node[p].Solution # ZeroVec
    /\ flow.Gradient # FlowSolver.Gradient
    /\ \E p \in Points : \E v \in Vars : Limiter[p][v] # 0

\* C18: in BC_Outlet of the SA model the exterior turbulent state given to
\* the kernel equals, at every vertex of the marker and in every component,
\* the interior state of the same point.
C18_OutletNeumannCopy ==
    (model = "SA" /\ step.op = "BC_Outlet") =>
        \A n \in DOMAIN TurbVar : \A iVar \in Vars :
            /\ TurbVar[n].i[iVar] = node[TurbVar[n].iPoint].Solution[iVar]
            /\ TurbVar[n].j[iVar] = TurbVar[n].i[iVar]

\* C19: in BC_Far_Field and BC_Inlet of the SA model component 0 of the
\* exterior turbulent state given to the kernel is nu_tilde_Inf at every
\* vertex of the marker, whatever ran before.
C19_FreestreamExterior ==
    (model = "SA" /\ step.op \in {"BC_Far_Field", "BC_Inlet"}) =>
        \A n \in DOMAIN TurbVar : TurbVar[n].j[0] = nu_tilde_Inf

\* the boundary routine of the kind of marker 0 has just run on marker 0
SST_Boundary_Step ==
    /\ model = "SST"
    /\ step.op \in {"BC_Far_Field", "BC_Inlet", "BC_Outlet"}
\* the residual the kernel returns at a vertex for the exterior state Sj
BC_Kernel_Residual(val_marker, iVertex, Sj) ==
    SetResidual_Conv(kernel, node[vertex[val_marker][iVertex]].Solution, Sj,
                     BC_Normal(config.Marker_Boundary, val_marker, iVertex)).Residual

\* C20: BC_Far_Field, BC_Inlet and BC_Outlet of the SST model do not assign
\* the exterior turbulent state: Solution_j is after the call what it was
\* before, the kernel gets that value at every vertex, and the residual
\* added to the vertex is the kernel's residual for it.  The boundary
\* residual therefore depends on what the preceding operation left there.
C20_StaleExteriorState ==
    [][(model = "SST" /\ step'.op \in {"BC_Far_Field", "BC_Inlet", "BC_Outlet"}) =>
          /\ Solution_j' = Solution_j
          /\ Len(TurbVar') = nVertex(step'.arg)
          /\ \A n \in DOMAIN TurbVar' :
                /\ TurbVar'[n].j = Solution_j
                /\ VecSub(node'[TurbVar'[n].iPoint].Residual,
                          node[TurbVar'[n].iPoint].Residual)
                     = BC_Kernel_Residual(step'.arg, n, Solution_j)]_vars
\* two runs from the same interior state: here the boundary routine ran
\* after a second-order Upwind_Residual and the kernel got the state that
\* call had reconstructed last; in the run where the routine is the first
\* operation the kernel gets what the allocation left in Solution_j, and for
\* each such value the residual of the last vertex differs from this one
C20_Witness ==
    /\ SST_Boundary_Step
    /\ step.prev[1] = "Upwind_Residual"
    /\ high_order_diss
    /\ TurbVar # <<>>
    /\ \A g \in Garbage :
          /\ TurbVar[Len(TurbVar)].j # [v \in Vars |-> g]
          /\ Residual # BC_Kernel_Residual(step.arg, Len(TurbVar), [v \in Vars |-> g])

(***************************************************************************)
(* Properties of the interior assembly, the boundary routines and the time *)
(* step (Spec, SpecAsm).                                                   *)
(***************************************************************************)
\* C21 as claimed: every edge step of Viscous_Residual adds the kernel
\* residual to iPoint and subtracts it from jPoint, adds the kernel blocks on
\* (i,i), (i,j) and subtracts them on (j,i), (j,j).
C21_Original ==
    [][step'.op = "Viscous_Residual" =>
        LET i == edge[step'.arg][1]
            j == edge[step'.arg][2]
        IN  /\ node'[i].Residual = VecAdd(node[i].Residual, Residual')
            /\ node'[j].Residual = VecSub(node[j].Residual, Residual')
            /\ Jacobian'[<<i, i>>] = BlkAdd(Jacobian[<<i, i>>], Jacobian_i')
            /\ Jacobian'[<<i, j>>] = BlkAdd(Jacobian[<<i, j>>], Jacobian_j')
            /\ Jacobian'[<<j, i>>] = BlkSub(Jacobian[<<j, i>>], Jacobian_i')
            /\ Jacobian'[<<j, j>>] = BlkSub(Jacobian[<<j, j>>], Jacobian_j')
    ]_vars
\* C21 amended: every edge step of Viscous_Residual (SA and SST) accumulates
\* with the sign opposite to Upwind_Residual: the kernel residual is
\* subtracted from iPoint and added to jPoint, the kernel blocks are
\* subtracted on (i,i), (i,j) and added on (j,i), (j,j); no other residual
\* and no other block changes.
C21_ViscousEdgeStep ==
    [][step'.op = "Viscous_Residual" =>
        LET i == edge[step'.arg][1]
            j == edge[step'.arg][2]
        IN  /\ node'[i].Residual = VecSub(node[i].Residual, Residual')
            /\ node'[j].Residual = VecAdd(node[j].Residual, Residual')
            /\ \A p \in Points \ {i, j} : node'[p].Residual = node[p].Residual
            /\ Jacobian'[<<i, i>>] = BlkSub(Jacobian[<<i, i>>], Jacobian_i')
            /\ Jacobian'[<<i, j>>] = BlkSub(Jacobian[<<i, j>>], Jacobian_j')
            /\ Jacobian'[<<j, i>>] = BlkAdd(Jacobian[<<j, i>>], Jacobian_i')
            /\ Jacobian'[<<j, j>>] = BlkAdd(Jacobian[<<j, j>>], Jacobian_j')
            /\ \A rc \in Pattern \ {<<i, i>>, <<i, j>>, <<j, i>>, <<j, j>>} :
                   Jacobian'[rc] = Jacobian[rc]
    ]_vars
\* the last edge step of Viscous_Residual has run with a non-zero kernel
\* residual and non-zero blocks, in the SST model
C21_Witness ==
    /\ model = "SST"
    /\ step.op = "Viscous_Residual"
    /\ step.arg = nEdge - 1
    /\ Residual # ZeroVec
    /\ Jacobian_i # ZeroBlk
    /\ Jacobian_j # ZeroBlk
    /\ Jacobian[<<edge[step.arg][2], edge[step.arg][2]>>] # ZeroBlk

\* C22: BC_Far_Field, BC_Inlet and BC_Outlet, in the SA and in the SST model,
\* give the kernel at every vertex the normal of the vertex with its sign
\* changed.  (The normal stored in the geometry is read through GetNormal
\* only; the geometry is constant in this model.)
C22_BoundaryNormalSign ==
    step.op \in {"BC_Far_Field", "BC_Inlet", "BC_Outlet"} =>
        /\ Len(TurbVar) = nVertex(step.arg)
        /\ \A n \in DOMAIN TurbVar :
              TurbVar[n].Normal = 0 - VertexNormal(step.arg, n)

\* row p of the Jacobian applied to the present states of its column points
JacobianTimesState(p) ==
    [v \in Vars |->
        SumOver({c \in Points : <<p, c>> \in DOMAIN Jacobian},
                [c \in Points |->
                    IF <<p, c>> \in DOMAIN Jacobian
                    THEN BlkVec(Jacobian[<<p, c>>], node[c].Solution)[v] ELSE 0])]
\* the kernel whose residual is linear in the states, R = Ji*u_i + Jj*u_j
LinearKernel == kernel = 1
InteriorAndSource == {"Upwind_Residual", "Viscous_Residual", "SourcePieceWise_Residual"}

\* C23: Upwind_Residual, Viscous_Residual and SourcePieceWise_Residual
\* accumulate the kernel residual into a point with the sign with which they
\* accumulate the kernel blocks into the point's row: with a kernel linear in
\* the states and first-order upwinding, after any sequence of these
\* operations since the residuals and the Jacobian were zeroed (also between
\* two edge steps), the residual of every point equals the sum over the
\* columns c of block (p,c) applied to the state of point c.
C23_SignConsistency ==
    (LinearKernel /\ ~high_order_diss /\ since \subseteq InteriorAndSource) =>
        \A p \in Points : node[p].Residual = JacobianTimesState(p)
\* the three operations have run on states that differ from point to point
\* and left a non-zero residual in every point and a non-zero block in every
\* place of the pattern
C23_Witness ==
    /\ LinearKernel
    /\ ~high_order_diss
    /\ pc.op = "idle"
    /\ since = InteriorAndSource
    /\ node[0].Solution # node[1].Solution
    /\ \A p \in Points : node[p].Residual # ZeroVec
    /\ \A rc \in Pattern : Jacobian[rc] # ZeroBlk

\* what the step just taken has made of the wall point p, which no handler
\* had touched since BC_NS_Wall: R, Bd are the residual and the diagonal block
\* the step contributes to p, q and Bo the other column and its block; D is
\* what the diagonal block held before the step
WallPointAfter(p, R, Bd, q, Bo, D) ==
    /\ node'[p].Residual = R
    /\ Jacobian'[<<p, p>>] = BlkAdd(D, Bd)
    /\ q # p => Jacobian'[<<p, q>>] = Bo
\* the first step that touches a wall point after BC_NS_Wall; keeps tells
\* whether the diagonal block keeps what it held
WallNotSticky(keeps) ==
    \A p \in step.wall :
        LET D == IF keeps THEN Jacobian[<<p, p>>] ELSE ZeroBlk
            s == SetResidual_Source(kernel, node[p].Solution, Volume(p))
            e == step'.arg
        IN  CASE step'.op = "Upwind_Residual" /\ p = edge[e][1] ->
                   WallPointAfter(p, Residual', Jacobian_i', edge[e][2], Jacobian_j', D)
              [] step'.op = "Upwind_Residual" /\ p = edge[e][2] ->
                   WallPointAfter(p, VecNeg(Residual'), BlkSub(ZeroBlk, Jacobian_j'),
                                  edge[e][1], BlkSub(ZeroBlk, Jacobian_i'), D)
              [] step'.op = "Viscous_Residual" /\ p = edge[e][1] ->
                   WallPointAfter(p, VecNeg(Residual'), BlkSub(ZeroBlk, Jacobian_i'),
                                  edge[e][2], BlkSub(ZeroBlk, Jacobian_j'), D)
              [] step'.op = "Viscous_Residual" /\ p = edge[e][2] ->
                   WallPointAfter(p, Residual', Jacobian_j', edge[e][1], Jacobian_i', D)
              [] step'.op = "SourcePieceWise_Residual" /\ p \in DomainPoints ->
                   WallPointAfter(p, VecNeg(s.Residual), BlkSub(ZeroBlk, s.Jacobian_i), p, ZeroBlk, D)
              [] OTHER -> TRUE
\* a wall point that no handler has touched since BC_NS_Wall is constrained:
\* zero residual, decoupled row with a regular diagonal block, and a zero
\* right-hand side once ImplicitEuler_Iteration has built the system
WallConstrained ==
    \A p \in step'.wall :
        /\ node'[p].Residual = ZeroVec
        /\ RowDecoupled(Jacobian', p)
        /\ Det(Jacobian'[<<p, p>>]) # 0
        /\ (step'.op = "ImplicitEuler_Build" /\ p \in DomainPoints)
              => PointVec(rhs', p) = ZeroVec

C25_ScratchIndexSafety ==
    [][step'.op \in {"BC_Far_Field", "BC_Inlet", "BC_Outlet"} =>
          /\ \A n \in DOMAIN TurbVar' : TurbVar'[n].index \subseteq Vars
          /\ Solution_j_end' = Solution_j_end]_vars

(***************************************************************************)
(* Properties of the halo exchange under every visiting order (SpecHalo).  *)
(***************************************************************************)
\* rank r visits its send marker before its receive marker
SendsFirst(r) ==
    \E ms, mr \in Markers :
        dom[r].SendRecv[ms] > 0 /\ dom[r].SendRecv[mr] < 0 /\ ms < mr
\* rank r has not returned from its receive marker
InsideOrBeforeRecv(r) ==
    \A m \in Markers : dom[r].SendRecv[m] < 0 => ~Returned(r, m)

\* C26 as claimed: for every order in which the two domains visit their send
\* and receive markers, also when both visit the receive marker first, every
\* call of BC_Send_Receive eventually returns.
C26_Original == <>AllReturned
\* C26 amended: every call of BC_Send_Receive eventually returns when at
\* least one of the two domains visits its send marker before its receive
\* marker; when both visit the receive marker first, neither ever returns
\* from it.
C26_VisitingOrder ==
    /\ (\E r \in Ranks : SendsFirst(r)) ~> AllReturned
    /\ []((\A r \in Ranks : ~SendsFirst(r)) => \A r \in Ranks : InsideOrBeforeRecv(r))
\* one domain visited its receive marker first, the other its send marker
\* first, and both have returned from all calls with every message received
C26_Witness ==
    /\ \E r \in Ranks : SendsFirst(r) /\ ~SendsFirst(3 - r)
    /\ AllReturned
    /\ net = <<>>
    /\ \A r \in Ranks : \E m \in Markers : Len(mpilog[r].calls[m]) = nDim + 1
                                             /\ mpilog[r].calls[m][1].call = "Recv"

\* the send marker of rank s that is paired with a receive marker of the
\* given kind
Pair_Paired(s, kind) ==
    CHOOSE m \in Markers :
        dom[s].kind[m + 1] = (IF kind = "recv2" THEN "send2" ELSE "send")
\* C27: with two send markers of one domain towards the other and the two
\* matching receive markers there, a domain returning from a receive marker
\* holds in the point of every vertex index the solution and the gradient
\* components 0..nDim-1 its peer packed at the same vertex index of the
\* paired send marker, for every order in which the domains visit their
\* markers.
C27_MarkerPairing ==
    [][\A r \in Ranks :
         LET d == dom[r]
             m == d.iMarker
         IN  (m < nMarker /\ d.SendRecv[m] < 0 /\ dom'[r].iMarker = m + 1) =>
               LET s    == 0 - d.SendRecv[m]
                   sent == mpilog[s].packed[Pair_Paired(s, d.kind[m + 1])]
               IN  /\ DOMAIN sent # {}
                   /\ \A v \in DOMAIN sent : \A k \in Vars :
                         LET p == d.vertex[m][v]
                         IN  /\ dom'[r].node[p].Solution[k] = sent[v].Solution[k]
                             /\ \A c \in 0 .. (nDim - 1) :
                                   dom'[r].node[p].Gradient[k][c] = sent[v].Gradient[k][c]
    ]_vars

\* What one edge step of Upwind_Residual (visc = FALSE) or Viscous_Residual
\* (visc = TRUE) makes of the residuals and the Jacobian st, with the
\* solution and the gradients as they are and the limiter Lim.
EdgeStep(st, iEdge, visc, Lim) ==
    LET iPoint == edge[iEdge][1]
        jPoint == edge[iEdge][2]
        Ti == IF high_order_diss
              THEN Upwind_Residual_Reconstruct(node[iPoint].Solution, Vector_i,
                                               Gradient[iPoint], Lim[iPoint])
              ELSE node[iPoint].Solution
        Tj == IF high_order_diss
              THEN Upwind_Residual_Reconstruct(node[jPoint].Solution, Vector_j,
                                               Gradient[jPoint], Lim[jPoint])
              ELSE node[jPoint].Solution
        k  == IF visc
              THEN SetResidual_Visc(kernel, node[iPoint].Solution, node[jPoint].Solution, iEdge)
              ELSE SetResidual_Conv(kernel, Ti, Tj, iEdge)
    IN  IF visc
        THEN [node     |-> Viscous_Residual_node(st.node, iPoint, jPoint, k.Residual),
              Jacobian |-> Viscous_Residual_Jacobian(st.Jacobian, iPoint, jPoint,
                                                     k.Jacobian_i, k.Jacobian_j)]
        ELSE [node     |-> Upwind_Residual_node(st.node, iPoint, jPoint, k.Residual),
              Jacobian |-> Upwind_Residual_Jacobian(st.Jacobian, iPoint, jPoint,
                                                    k.Jacobian_i, k.Jacobian_j)]
\* the edge steps executed one after the other in the given order
RECURSIVE EdgeLoop(_, _, _, _)
EdgeLoop(st, order, visc, Lim) ==
    IF order = <<>> THEN st
    ELSE EdgeLoop(EdgeStep(st, Head(order), visc, Lim), Tail(order), visc, Lim)
\* every order in which the edges can be visited, and the order of the code
EdgeOrders ==
    {o \in [1 .. nEdge -> 0 .. (nEdge - 1)] :
        \A a, b \in 1 .. nEdge : a # b => o[a] # o[b]}
CodeOrder == [n \in 1 .. nEdge |-> n - 1]
ResidualsAndJacobian(nd, J) ==
    [node |-> [p \in Points |-> [Residual |-> nd[p].Residual]], Jacobian |-> J]

\* C28: every edge step of Upwind_Residual and of Viscous_Residual is the
\* step EdgeStep, and from the residuals and the Jacobian a call starts
\* with, the edge steps executed one at a time in any order of the edges
\* leave the residual of every point and every block of the Jacobian that the
\* order of the code leaves.
C28_EdgeOrderIndependence ==
    [][step'.op \in {"Upwind_Residual", "Viscous_Residual"} =>
        LET visc == step'.op = "Viscous_Residual"
            st   == ResidualsAndJacobian(node, Jacobian)
        IN  /\ EdgeStep(st, step'.arg, visc, Limiter') = ResidualsAndJacobian(node', Jacobian')
            /\ pc.op = "idle" =>
                  LET code == EdgeLoop(st, CodeOrder, visc, Limiter')
                  IN  \A o \in EdgeOrders : EdgeLoop(st, o, visc, Limiter') = code
    ]_vars
\* a second-order Upwind_Residual with the limiter has run to its end on
\* residuals and blocks another handler had left non-zero, and every end
\* point of its edges holds a non-zero residual
C28_Witness ==
    /\ step.op = "Upwind_Residual"
    /\ pc.op = "idle"
    /\ high_order_diss
    /\ config.Kind_SlopeLimit_Turb = "VENKATAKRISHNAN"
    /\ step.prev[1] = "SourcePieceWise_Residual"
    /\ nEdge > 1
    /\ \A p \in Points : node[p].Residual # ZeroVec
    /\ \A rc \in Pattern : Jacobian[rc] # ZeroBlk

\* n times the pseudo-time term Vol/DeltaTime of iPoint on the diagonal
PseudoTime(iPoint, n) ==
    [vw \in VarPairs |-> IF vw[1] = vw[2] THEN n * ImplicitEuler_Delta(iPoint) ELSE 0]
\* the sum of the blocks the Jacobian stores in the column of jPoint: an edge
\* step adds to one block of the column what it subtracts from another
ColumnSum(J, jPoint) ==
    [vw \in VarPairs |->
        SumOver({rc \in DOMAIN J : rc[2] = jPoint},
                [rc \in DOMAIN J |-> J[rc][vw]])]
\* the columns of the Jacobian hold n pseudo-time terms and nothing else
PseudoTimeCount(J, n) ==
    \A jPoint \in Points :
        ColumnSum(J, jPoint) = IF jPoint \in DomainPoints THEN PseudoTime(jPoint, n)
                               ELSE ZeroBlk

\* C29: Preprocessing leaves the residual of every point, ghost points
\* included, and every block of the Jacobian zero; the system-building loop
\* of ImplicitEuler_Iteration adds Vol/DeltaTime once to the diagonal of every
\* domain point's block and the rest of the call leaves the Jacobian and
\* the residuals alone; so when only the edge loops and
\* ImplicitEuler_Iteration have run since the latest Preprocessing, the
\* residuals sum to zero and the column of every domain point in the Jacobian
\* holds the pseudo-time term as many times as ImplicitEuler_Iteration was
\* called since then (once after one call, twice after two) and nothing of
\* an earlier time step.
C29_NoCarryOver ==
    [][/\ step'.op = "Preprocessing" =>
            /\ \A p \in Points : node'[p].Residual = ZeroVec
            /\ \A rc \in DOMAIN Jacobian' : Jacobian'[rc] = ZeroBlk
            /\ step'.nImplicit = 0
       /\ step'.op = "ImplicitEuler_Build" =>
            /\ \A rc \in DOMAIN Jacobian :
                 Jacobian'[rc] = IF rc[1] = rc[2] /\ rc[1] \in DomainPoints
                                 THEN BlkAdd(Jacobian[rc], PseudoTime(rc[1], 1))
                                 ELSE Jacobian[rc]
            /\ \A p \in Points : node'[p].Residual = node[p].Residual
       /\ step'.op = "ImplicitEuler_Iteration" =>
            /\ Jacobian' = Jacobian
            /\ \A p \in Points : node'[p].Residual = node[p].Residual
       /\ (since' \subseteq InteriorOnly) =>
            /\ PseudoTimeCount(Jacobian', step'.nImplicit)
            /\ ResidualSum' = ZeroVec
    ]_vars
\* ImplicitEuler_Iteration has returned from its second call since the latest
\* Preprocessing, an edge loop having filled the residuals and the blocks
\* before, and the column of a domain point holds the pseudo-time term twice
\* next to the blocks of the edges
C29_Witness ==
    /\ step.op = "ImplicitEuler_Iteration"
    /\ step.nImplicit = 2
    /\ since = {"Upwind_Residual", "ImplicitEuler_Iteration"}
    /\ ColumnSum(Jacobian, 0) = PseudoTime(0, 2)
    /\ PseudoTime(0, 2) # PseudoTime(0, 1)
    /\ Jacobian[<<0, 0>>] # PseudoTime(0, 2)
    /\ \E p \in Points : node[p].Residual # ZeroVec

\* what the update loops may not write of a ghost point
GhostFrame(iPoint) ==
    /\ node'[iPoint].Solution = node[iPoint].Solution
    /\ node'[iPoint].Residual = node[iPoint].Residual
    /\ Jacobian'[<<iPoint, iPoint>>] = Jacobian[<<iPoint, iPoint>>]
    /\ PointVec(rhs', iPoint) = PointVec(rhs, iPoint)
\* the convergence monitor summed over the points with index < nPointDomain
DomainMonitor(nd) ==
    [v \in Vars |->
        SumOver(DomainPoints,
                [p \in DomainPoints |-> nd[p].Residual[v] * nd[p].Residual[v] * Volume(p)])]

\* C30: for every point with nPointDomain <= index < nPoint, the
\* system-building loop of ImplicitEuler_Iteration and the loop of
\* SourcePieceWise_Residual leave its solution, its residual, its diagonal
\* block and its rhs and xsol entries as they were; the rest of
\* ImplicitEuler_Iteration leaves its solution, residual, diagonal block and
\* rhs entries as they were and xsol as the linear solver returned it; and
\* the convergence monitor is the sum over the domain points alone.
C30_GhostPointsUntouched ==
    [][\A iPoint \in Points \ DomainPoints :
        /\ step'.op \in {"ImplicitEuler_Build", "SourcePieceWise_Residual"} =>
              /\ GhostFrame(iPoint)
              /\ PointVec(xsol', iPoint) = PointVec(xsol, iPoint)
        /\ step'.op = "ImplicitEuler_Build" =>
              Residual_Max' = DomainMonitor(node)
        /\ step'.op = "ImplicitEuler_Iteration" =>
              /\ GhostFrame(iPoint)
              /\ xsol' = LU_SGSIteration(Jacobian, rhs, xsol)
    ]_vars
\* the system has been built while a ghost point held a non-zero residual:
\* the domain points' rhs entries are the negated residuals, the ghost
\* point's are not, and the monitor is not zero
C30_Witness ==
    /\ step.op = "ImplicitEuler_Build"
    /\ \E iPoint \in Points \ DomainPoints :
         /\ node[iPoint].Residual # ZeroVec
         /\ PointVec(rhs, iPoint) # VecNeg(node[iPoint].Residual)
    /\ \A iPoint \in DomainPoints :
         PointVec(rhs, iPoint) = VecNeg(node[iPoint].Residual)
    /\ Residual_Max # ZeroVec

====
